---- MODULE Spec2Model ----
(***************************************************************************)
(* Model of the activity sync / cache / query / aggregation layer of the   *)
(* Strava run coach MCP server (src/src/runcoach/{strava,storage,server}.py)*)
(*                                                                         *)
(* Conventions.                                                            *)
(*   - A Python str that the code slices, prefixes or orders is a sequence *)
(*     of character codes (48..57 are "0".."9", 45 is "-").  A str that is *)
(*     only compared for equality (the type tag, tool names) is a TLA+     *)
(*     string.                                                             *)
(*   - A Python dict is a function whose DOMAIN is the set of keys that are*)
(*     present; d.get(k, default) is Get(d, k, default).                   *)
(*   - None is the record None; a value that may be None is Some(v).       *)
(*   - Distances, times and elevations are integers (metres, seconds).     *)
(***************************************************************************)
EXTENDS Integers, Sequences, FiniteSets, TLC

VARIABLES
    cacheFile,       \* data/activities_cache.json: NoFile or the JSON document
    clock,           \* datetime.now(), advanced by every cache write
    pc,              \* per task: "idle" or "await" (suspended in client.request)
    page,            \* per task: local `page` of get_all_activities
    all_activities,  \* per task: local accumulator of get_all_activities (empty outside a call)
    \* logs of a task's sync call, kept until its response is written out
    calls,           \* pages for which get_activities was called
    sent,            \* pages whose HTTP request was sent
    saves,           \* number of save_activities_cache calls
    cacheAtStart,    \* cacheFile when the call started
    lastSaved,       \* argument of the latest save_activities_cache call (log)
    response,        \* what a finished tool call returned or raised, until it is written out
    received,        \* per task: the pages get_activities returned to the sync call (log)
    pending,         \* the get_training_load call suspended in client.request, or NoCall
    goalsFile,       \* data/goals.json: NoFile or the JSON list
    racesFile,       \* data/races.json: NoFile or the JSON list
    tokensFile       \* data/tokens.json: NoFile or the JSON document

vars == <<cacheFile, clock, pc, page, all_activities, calls, sent, saves,
          cacheAtStart, lastSaved, response, received, pending, goalsFile,
          racesFile, tokensFile>>

\* what the sync, search and statistics tools neither read nor write
others == <<pending, goalsFile, racesFile, tokensFile>>

(***************************************************************************)
(* Bounds of the model and constants of the program.                       *)
(***************************************************************************)
\* Page requests one sync may issue: the remote answers page MaxPages short.
MaxPages == 3
\* Longest page of hand-picked activities the remote serves in SpecQuery.
MaxLen == 2
\* Cache writes explored (the clock is capped there).
MaxClock == 2
\* goals and races stored at most, together
MaxRecords == 2
\* runs held by the athlete whose history is longer than one page
MaxStreak == 250
\* per_page of get_all_activities.
PerPage == 200
\* Default and cap of search_activities' limit.
DefaultLimit == 10
LimitCap == 25
\* _get_training_load: `weeks = min(arguments.get("weeks", 8), 16)`
DefaultWeeks == 8
MaxWeeks == 16

Tasks == {1, 2}

Min(a, b) == IF a <= b THEN a ELSE b
Max(a, b) == IF a >= b THEN a ELSE b

(***************************************************************************)
(* Python values.                                                          *)
(***************************************************************************)
None == [none |-> TRUE]
Some(v) == [some |-> v]
EmptyDict == [k \in {} |-> 0]

Get(d, k, default) == IF k \in DOMAIN d THEN d[k] ELSE default
OptGet(d, k) == IF k \in DOMAIN d THEN Some(d[k]) ELSE None

\* str(n) for an int
RECURSIVE Digits(_)
Digits(n) == IF n < 10 THEN <<48 + n>> ELSE Append(Digits(n \div 10), 48 + (n % 10))
Str(n) == IF n < 0 THEN <<45>> \o Digits(-n) ELSE Digits(n)
\* f"{n:02d}" for n >= 0
Pad2(n) == IF n < 10 THEN <<48>> \o Digits(n) ELSE Digits(n)

\* s[:k], also for a negative k
Slice(s, k) ==
    IF k >= 0 THEN SubSeq(s, 1, Min(k, Len(s)))
    ELSE SubSeq(s, 1, Max(0, Len(s) + k))
\* s.startswith(p)
StartsWith(s, p) == Len(p) <= Len(s) /\ SubSeq(s, 1, Len(p)) = p
\* s < t for two str (lexicographic by code point)
StrLt(s, t) ==
    \E i \in 1..(Min(Len(s), Len(t)) + 1) :
        /\ \A j \in 1..(i - 1) : s[j] = t[j]
        /\ IF i > Len(s) THEN i <= Len(t)
           ELSE i <= Len(t) /\ s[i] < t[i]
\* sorted(S) for a set of str
RECURSIVE Sorted(_)
Sorted(S) ==
    IF S = {} THEN <<>>
    ELSE LET m == CHOOSE x \in S : \A y \in S \ {x} : StrLt(x, y)
         IN  <<m>> \o Sorted(S \ {m})

\* sum(x.get(f, 0) for x in s[lo-1:hi]), added up left to right (the range is
\* halved so that the evaluation does not nest once per element)
RECURSIVE SumRange(_, _, _, _)
SumRange(s, f, lo, hi) ==
    IF lo > hi THEN 0
    ELSE IF lo = hi THEN Get(s[lo], f, 0)
    ELSE LET mid == (lo + hi) \div 2
         IN  SumRange(s, f, lo, mid) + SumRange(s, f, mid + 1, hi)
SumField(s, f) == SumRange(s, f, 1, Len(s))

\* round(num / den) to the nearest integer, ties to even (float formatting and
\* round() on exact ties; representation error of the float is not modelled)
RoundDiv(num, den) ==
    LET q == num \div den
        r == num % den
    IN  IF 2 * r < den THEN q
        ELSE IF 2 * r > den THEN q + 1
        ELSE IF q % 2 = 0 THEN q ELSE q + 1

(***************************************************************************)
(* strava.py: the presentation formatters.                                 *)
(***************************************************************************)
\* "N/A"
NA == <<78, 47, 65>>

\* format_pace of the speed num/den metres per second
format_pace(num, den) ==
    IF num <= 0 THEN NA
    ELSE LET seconds_per_km == (1000 * den) \div num
             minutes == seconds_per_km \div 60
             seconds == seconds_per_km % 60
         IN  Str(minutes) \o <<58>> \o Pad2(seconds) \o <<47, 107, 109>>

\* format_distance of num/den metres: f"{meters / 1000:.2f} km"
format_distance_of(num, den) ==
    LET cents == RoundDiv(num, 10 * den)
    IN  Str(cents \div 100) \o <<46>> \o Pad2(cents % 100) \o <<32, 107, 109>>
format_distance(meters) == format_distance_of(meters, 1)

\* minutes taken from the whole duration, not from what the hours leave
format_duration_nomod(seconds) ==
    LET hours == seconds \div 3600
        minutes == seconds \div 60
        secs == seconds % 60
    IN  IF hours > 0
        THEN Str(hours) \o <<58>> \o Pad2(minutes) \o <<58>> \o Pad2(secs)
        ELSE Str(minutes) \o <<58>> \o Pad2(secs)

format_duration(seconds) ==
    LET hours == seconds \div 3600
        minutes == (seconds % 3600) \div 60
        secs == seconds % 60
    IN  IF hours > 0
        THEN Str(hours) \o <<58>> \o Pad2(minutes) \o <<58>> \o Pad2(secs)
        ELSE Str(minutes) \o <<58>> \o Pad2(secs)

\* format_activity_summary(activity, compact=True); average_speed is kept in
\* millimetres per second
format_activity_summary_compact(activity) ==
    LET avg_speed == Get(activity, "average_speed", 0)
        distance == Get(activity, "distance", 0)
        moving_time == Get(activity, "moving_time", 0)
        elapsed_time == Get(activity, "elapsed_time", moving_time)
    IN  [id |-> OptGet(activity, "id"),
         date |-> Slice(Get(activity, "start_date_local", <<>>), 10),
         name |-> OptGet(activity, "name"),
         distance |-> format_distance(distance),
         time |-> format_duration(elapsed_time),
         pace |-> IF "type" \in DOMAIN activity /\ activity["type"] = "Run"
                  THEN Some(format_pace(avg_speed, 1000)) ELSE None,
         hr |-> OptGet(activity, "average_heartrate")]

\* a full summary that computes the pace of every activity
format_activity_summary_full_anytype(activity) ==
    LET avg_speed == Get(activity, "average_speed", 0)
        distance == Get(activity, "distance", 0)
        moving_time == Get(activity, "moving_time", 0)
        elapsed_time == Get(activity, "elapsed_time", moving_time)
    IN  [id |-> OptGet(activity, "id"),
         name |-> OptGet(activity, "name"),
         type |-> OptGet(activity, "type"),
         date |-> Slice(Get(activity, "start_date_local", <<>>), 10),
         distance |-> format_distance(distance),
         distance_meters |-> distance,
         moving_time |-> format_duration(moving_time),
         moving_time_seconds |-> moving_time,
         elapsed_time |-> format_duration(elapsed_time),
         elapsed_time_seconds |-> elapsed_time,
         pace |-> Some(format_pace(avg_speed, 1000)),
         average_speed_mps |-> avg_speed,
         elevation_gain |-> Str(Get(activity, "total_elevation_gain", 0)) \o <<109>>,
         average_heartrate |-> OptGet(activity, "average_heartrate"),
         max_heartrate |-> OptGet(activity, "max_heartrate"),
         suffer_score |-> OptGet(activity, "suffer_score"),
         calories |-> OptGet(activity, "calories")]

\* format_activity_summary(activity, compact=False)
format_activity_summary_full(activity) ==
    LET avg_speed == Get(activity, "average_speed", 0)
        distance == Get(activity, "distance", 0)
        moving_time == Get(activity, "moving_time", 0)
        elapsed_time == Get(activity, "elapsed_time", moving_time)
    IN  [id |-> OptGet(activity, "id"),
         name |-> OptGet(activity, "name"),
         type |-> OptGet(activity, "type"),
         date |-> Slice(Get(activity, "start_date_local", <<>>), 10),
         distance |-> format_distance(distance),
         distance_meters |-> distance,
         moving_time |-> format_duration(moving_time),
         moving_time_seconds |-> moving_time,
         elapsed_time |-> format_duration(elapsed_time),
         elapsed_time_seconds |-> elapsed_time,
         pace |-> IF "type" \in DOMAIN activity /\ activity["type"] = "Run"
                  THEN Some(format_pace(avg_speed, 1000)) ELSE None,
         average_speed_mps |-> avg_speed,
         elevation_gain |-> Str(Get(activity, "total_elevation_gain", 0)) \o <<109>>,
         average_heartrate |-> OptGet(activity, "average_heartrate"),
         max_heartrate |-> OptGet(activity, "max_heartrate"),
         suffer_score |-> OptGet(activity, "suffer_score"),
         calories |-> OptGet(activity, "calories")]

format_activity_summary(activity, compact) ==
    IF compact THEN format_activity_summary_compact(activity)
    ELSE format_activity_summary_full(activity)

(***************************************************************************)
(* storage.py: the activities cache.                                       *)
(***************************************************************************)
NoFile == [exists |-> FALSE]

\* _save_json: open(filepath, "w") truncates, json.dump writes the document
_save_json(file, data) == [exists |-> TRUE, data |-> data]

\* a save that adds to the activities already in the file
save_activities_cache_merging(file, activities, now) ==
    LET old == IF file.exists THEN file.data.activities ELSE <<>>
    IN  _save_json(file, [updated_at |-> now,
                          count |-> Len(activities),
                          activities |-> old \o activities])

save_activities_cache(file, activities, now) ==
    _save_json(file, [updated_at |-> now,
                      count |-> Len(activities),
                      activities |-> activities])

get_activities_cache(file) == IF file.exists THEN file.data ELSE None

\* `not cache` for None or a dict
NotCache(cache) == cache = None \/ DOMAIN cache = {}

\* `if x:` for an optional int or str parameter p[k]
SuppliedInt(p, k) == k \in DOMAIN p /\ p[k] # 0
SuppliedStr(p, k) == k \in DOMAIN p /\ p[k] # ""

\* the four list comprehensions of query_cached_activities
TypeIs(a, activity_type) == "type" \in DOMAIN a /\ a["type"] = activity_type
InYear(a, year) == StartsWith(Get(a, "start_date_local", <<>>), Str(year))
AtLeast(a, min_meters) == Get(a, "distance", 0) >= min_meters
AtMost(a, max_meters) == Get(a, "distance", 0) <= max_meters

\* `if limit: activities = activities[:limit]`
Truncate(activities, p) ==
    IF SuppliedInt(p, "limit") THEN Slice(activities, p.limit) ELSE activities

\* p holds the keyword arguments that are not None
query_cached_activities(file, p) ==
    LET cache == get_activities_cache(file)
    IN  IF NotCache(cache) THEN <<>>
        ELSE
        LET a0 == Get(cache, "activities", <<>>)
            a1 == IF SuppliedStr(p, "activity_type")
                  THEN SelectSeq(a0, LAMBDA a : TypeIs(a, p.activity_type))
                  ELSE a0
            a2 == IF SuppliedInt(p, "year")
                  THEN SelectSeq(a1, LAMBDA a : InYear(a, p.year))
                  ELSE a1
            a3 == IF "min_distance_km" \in DOMAIN p
                  THEN SelectSeq(a2, LAMBDA a : AtLeast(a, p.min_distance_km * 1000))
                  ELSE a2
            a4 == IF "max_distance_km" \in DOMAIN p
                  THEN SelectSeq(a3, LAMBDA a : AtMost(a, p.max_distance_km * 1000))
                  ELSE a3
        IN  Truncate(a4, p)

(***************************************************************************)
(* server.py: the cache tools.                                             *)
(***************************************************************************)
NoCacheError == "No cached activities. Run sync_all_activities first."

FilterKeys == {"activity_type", "year", "min_distance_km", "max_distance_km"}

\* limit = min(arguments.get("limit", 10), 25)
ClampLimit(arguments) == Min(Get(arguments, "limit", DefaultLimit), LimitCap)

_search_activities(file, arguments) ==
    LET cache == get_activities_cache(file)
    IN  IF NotCache(cache)
        THEN [error |-> NoCacheError, activities |-> <<>>]
        ELSE
        LET limit == ClampLimit(arguments)
            p == [k \in (DOMAIN arguments \cap FilterKeys) \cup {"limit"} |->
                     IF k = "limit" THEN limit ELSE arguments[k]]
            activities == query_cached_activities(file, p)
        IN  [cache_updated |-> cache.updated_at,
             total_cached |-> cache.count,
             results_count |-> Len(activities),
             activities |-> [i \in 1..Len(activities) |->
                                format_activity_summary_compact(activities[i])]]

IsRun(a) == TypeIs(a, "Run")

ZeroStats == [runs |-> 0, distance_m |-> 0, time_s |-> 0, elevation_m |-> 0]

\* the body with `=` for `+=`: the year's totals are those of its last run
YearlyStep_overwriting(yearly, run) ==
    LET year == Slice(Get(run, "start_date_local", <<>>), 4)
    IN  IF year = <<>> THEN yearly
        ELSE (year :> [runs |-> 1,
                       distance_m |-> Get(run, "distance", 0),
                       time_s |-> Get(run, "moving_time", 0),
                       elevation_m |-> Get(run, "total_elevation_gain", 0)]) @@ yearly

\* one pass of the body of `for run in runs` in _get_yearly_stats
YearlyStep(yearly, run) ==
    LET year == Slice(Get(run, "start_date_local", <<>>), 4)
    IN  IF year = <<>> THEN yearly
        ELSE
        LET old == IF year \in DOMAIN yearly THEN yearly[year] ELSE ZeroStats
            new == [runs |-> old.runs + 1,
                    distance_m |-> old.distance_m + Get(run, "distance", 0),
                    time_s |-> old.time_s + Get(run, "moving_time", 0),
                    elevation_m |-> old.elevation_m
                                      + Get(run, "total_elevation_gain", 0)]
        IN  (year :> new) @@ yearly

\* the loop over runs[lo..hi] in order, starting from `yearly`.  The range is
\* halved, and the first half's dict is compared with itself so that TLC
\* evaluates it before the second half: the evaluation then nests
\* log(hi - lo) deep instead of once per run.
RECURSIVE YearlyLoop(_, _, _, _)
YearlyLoop(runs, lo, hi, yearly) ==
    IF lo > hi THEN yearly
    ELSE IF lo = hi THEN YearlyStep(yearly, runs[lo])
    ELSE LET mid == (lo + hi) \div 2
             first == YearlyLoop(runs, lo, mid, yearly)
         IN  IF first = first THEN YearlyLoop(runs, mid + 1, hi, first) ELSE first

\* `if target_year: yearly = {str(target_year): yearly.get(str(target_year), {})}`
RestrictYear(yearly, arguments) ==
    IF SuppliedInt(arguments, "year")
    THEN LET key == Str(arguments.year)
         IN  [k \in {key} |-> IF key \in DOMAIN yearly THEN yearly[key] ELSE EmptyDict]
    ELSE yearly

\* one entry of the result dict
YearEntry(year, stats) ==
    [year |-> year,
     total_runs |-> stats.runs,
     total_distance |-> format_distance(stats.distance_m),
     total_distance_km |-> RoundDiv(stats.distance_m, 100),
     total_time |-> format_duration(stats.time_s),
     total_elevation |-> Str(stats.elevation_m) \o <<109>>,
     average_run_distance |->
         IF stats.runs > 0
         THEN format_distance_of(stats.distance_m, stats.runs)
         ELSE NA,
     average_pace |->
         IF stats.time_s > 0 /\ stats.distance_m > 0
         THEN format_pace(stats.distance_m, stats.time_s)
         ELSE NA]

\* the `for year, stats in sorted(yearly.items())` loop: the result dict in
\* insertion order, as a sequence of entries
FormatYears(yearly) ==
    LET keys == Sorted({k \in DOMAIN yearly : DOMAIN yearly[k] # {}})
    IN  [i \in 1..Len(keys) |-> YearEntry(keys[i], yearly[keys[i]])]

_get_yearly_stats(file, arguments) ==
    LET cache == get_activities_cache(file)
    IN  IF NotCache(cache) THEN [error |-> NoCacheError]
        ELSE
        LET activities == Get(cache, "activities", <<>>)
            runs == SelectSeq(activities, IsRun)
            yearly == YearlyLoop(runs, 1, Len(runs), <<>>)
        IN  [cache_updated |-> cache.updated_at,
             yearly_stats |-> FormatYears(RestrictYear(yearly, arguments))]

\* min(dates) and max(dates) for a non-empty set of str
MinStr(S) == CHOOSE x \in S : \A y \in S \ {x} : StrLt(x, y)
MaxStr(S) == CHOOSE x \in S : \A y \in S \ {x} : StrLt(y, x)

\* the summary, given the runs among the activities and their sorted years
SyncSummaryOf(activities, runs, years) ==
    LET dates == {Slice(activities[i].start_date_local, 10) :
                    i \in {j \in 1..Len(activities) :
                             Get(activities[j], "start_date_local", <<>>) # <<>>}}
        yearOf(i) == Slice(Get(runs[i], "start_date_local", <<>>), 4)
    IN  [success |-> TRUE,
         total_activities |-> Len(activities),
         total_runs |-> Len(runs),
         total_run_distance |-> format_distance(SumField(runs, "distance")),
         total_run_time |-> format_duration(SumField(runs, "moving_time")),
         date_range |-> IF dates = {} THEN <<NA, NA>>
                        ELSE <<MinStr(dates), MaxStr(dates)>>,
         runs_by_year |-> [k \in 1..Len(years) |->
                              <<years[k],
                                Cardinality({i \in 1..Len(runs) : yearOf(i) = years[k]})>>]]

\* the sorted years in which the runs start
RunYears(runs) ==
    Sorted({Slice(Get(runs[i], "start_date_local", <<>>), 4) : i \in 1..Len(runs)} \ {<<>>})

\* what _sync_all_activities returns after the save (runs and years are
\* computed once)
SyncSummary(activities) ==
    CHOOSE summary \in
        {SyncSummaryOf(fetched, runs, years) :
            <<fetched, runs, years>> \in
                {<<a, r, RunYears(r)>> :
                    <<a, r>> \in {<<a, SelectSeq(a, IsRun)>> : a \in {activities}}}} : TRUE

(***************************************************************************)
(* strava.py: get_all_activities, one step per suspension point.           *)
(***************************************************************************)
\* `<=` for `<` in the second break
NextPageWanted_le(activities) ==
    ~(activities = <<>>) /\ ~(Len(activities) <= PerPage)

\* the while loop goes round again after this page: neither break is taken
NextPageWanted(activities) ==
    ~(activities = <<>>) /\ ~(Len(activities) < PerPage)

(***************************************************************************)
(* The remote API: what a page request may be answered with.               *)
(***************************************************************************)
\* "YYYY-MM-DD"
IsoDay(y, m, d) == Str(y) \o <<45>> \o Pad2(m) \o <<45>> \o Pad2(d)
\* "YYYY-MM-DDT07:30:00Z"
IsoDate(y, m, d) == IsoDay(y, m, d) \o <<84, 48, 55, 58, 51, 48, 58, 48, 48, 90>>

\* the activity at position idx of the athlete's history, in snapshot v
RemoteActivity(v, idx) ==
    [id |-> 1000 * v + idx,
     type |-> IF idx % 3 = 0 THEN "Ride" ELSE "Run",
     start_date_local |-> IsoDay(2022 + v, 1 + (idx % 12), 1 + (idx % 28)),
     distance |-> 1000 * (1 + (idx % 15))]

Versions == {1}

\* page p of snapshot v, holding n activities
RemotePage(v, p, n) == [k \in 1..n |-> RemoteActivity(v, (p - 1) * PerPage + k)]

\* sizes the remote may answer page p with (a full page only below MaxPages)
PageSizes(p) == {0, 1, PerPage - 1} \cup (IF p < MaxPages THEN {PerPage} ELSE {})

\* hand-picked activities: the shapes the filters and the aggregation tell apart
ActivitySet ==
    { [id |-> 1, type |-> "Run", start_date_local |-> IsoDate(2024, 1, 1),
       distance |-> 7000, moving_time |-> 2100, total_elevation_gain |-> 50],
      [id |-> 2, type |-> "Run", start_date_local |-> IsoDate(2023, 6, 10),
       distance |-> 5000, moving_time |-> 1500, total_elevation_gain |-> 20],
      [id |-> 3, type |-> "Ride", start_date_local |-> IsoDate(2024, 3, 9),
       distance |-> 12000, moving_time |-> 1800],
      [id |-> 4, type |-> "Run", start_date_local |-> <<>>,
       distance |-> 10000, moving_time |-> 3000],
      [id |-> 5, type |-> "Run", start_date_local |-> <<49, 50>>,
       moving_time |-> 0] }

RECURSIVE SeqsUpTo(_, _)
SeqsUpTo(S, n) ==
    IF n = 0 THEN {<<>>}
    ELSE LET shorter == SeqsUpTo(S, n - 1)
         IN  shorter \cup {Append(s, x) : s \in shorter, x \in S}

QueryPages == SeqsUpTo(ActivitySet, MaxLen)

(***************************************************************************)
(* datetime: a naive datetime is [days, secs], the days counted from       *)
(* 1970-01-01 and the seconds from midnight; the proleptic Gregorian       *)
(* calendar of datetime.date.                                              *)
(***************************************************************************)
IsLeap(y) == (y % 4 = 0 /\ y % 100 # 0) \/ y % 400 = 0
DaysInMonth(y, m) ==
    IF m = 2 THEN (IF IsLeap(y) THEN 29 ELSE 28)
    ELSE IF m \in {4, 6, 9, 11} THEN 30 ELSE 31

\* date(y, m, d).toordinal() - date(1970, 1, 1).toordinal()
DaysFromCivil(y, m, d) ==
    LET yy == IF m <= 2 THEN y - 1 ELSE y
        era == yy \div 400
        yoe == yy - era * 400
        mp == IF m > 2 THEN m - 3 ELSE m + 9
        doy == (153 * mp + 2) \div 5 + d - 1
        doe == yoe * 365 + yoe \div 4 - yoe \div 100 + doy
    IN  era * 146097 + doe - 719468

\* date.fromordinal: <<y, m, d>> of a day count
CivilFromDays(days) ==
    LET z == days + 719468
        era == z \div 146097
        doe == z - era * 146097
        yoe == (doe - doe \div 1460 + doe \div 36524 - doe \div 146096) \div 365
        doy == doe - (365 * yoe + yoe \div 4 - yoe \div 100)
        mp == (5 * doy + 2) \div 153
        d == doy - (153 * mp + 2) \div 5 + 1
        m == IF mp < 10 THEN mp + 3 ELSE mp - 9
        y == yoe + era * 400
    IN  <<IF m <= 2 THEN y + 1 ELSE y, m, d>>

DateTime(y, m, d, secs) == [days |-> DaysFromCivil(y, m, d), secs |-> secs]

\* dt.weekday(): 0 is Monday (1970-01-01 was a Thursday)
weekday(dt) == (dt.days + 3) % 7
\* dt - timedelta(days=n)
MinusDays(dt, n) == [dt EXCEPT !.days = dt.days - n]
\* dt.strftime("%Y-%m-%d")
strftime_date(dt) ==
    LET c == CivilFromDays(dt.days)
    IN  Digits(c[1]) \o <<45>> \o Pad2(c[2]) \o <<45>> \o Pad2(c[3])
\* int(dt.timestamp()), the local time zone taken to be UTC without DST
timestamp(dt) == dt.days * 86400 + dt.secs

IsDigits(s) == \A i \in 1..Len(s) : s[i] \in 48..57
\* int(s) for a str of digits
RECURSIVE ParseInt(_)
ParseInt(s) ==
    IF s = <<>> THEN 0
    ELSE 10 * ParseInt(SubSeq(s, 1, Len(s) - 1)) + (s[Len(s)] - 48)

\* s.replace("Z", "")
StripZ(s) == SelectSeq(s, LAMBDA c : c # 90)

\* datetime.fromisoformat(s) for "YYYY-MM-DD" and "YYYY-MM-DDTHH:MM:SS";
\* None stands for the ValueError raised on anything else
fromisoformat(s) ==
    LET dateOk == /\ Len(s) >= 10
                  /\ IsDigits(SubSeq(s, 1, 4)) /\ s[5] = 45
                  /\ IsDigits(SubSeq(s, 6, 7)) /\ s[8] = 45
                  /\ IsDigits(SubSeq(s, 9, 10))
        y == ParseInt(SubSeq(s, 1, 4))
        m == ParseInt(SubSeq(s, 6, 7))
        d == ParseInt(SubSeq(s, 9, 10))
        civilOk == y >= 1 /\ m \in 1..12 /\ d >= 1 /\ d <= DaysInMonth(y, m)
        timeOk == /\ Len(s) = 19
                  /\ IsDigits(SubSeq(s, 12, 13)) /\ s[14] = 58
                  /\ IsDigits(SubSeq(s, 15, 16)) /\ s[17] = 58
                  /\ IsDigits(SubSeq(s, 18, 19))
        hh == ParseInt(SubSeq(s, 12, 13))
        mi == ParseInt(SubSeq(s, 15, 16))
        ss == ParseInt(SubSeq(s, 18, 19))
    IN  IF ~dateOk THEN None
        ELSE IF ~civilOk THEN None
        ELSE IF Len(s) = 10 THEN Some(DateTime(y, m, d, 0))
        ELSE IF ~timeOk THEN None
        ELSE IF hh > 23 \/ mi > 59 \/ ss > 59 THEN None
        ELSE Some(DateTime(y, m, d, 3600 * hh + 60 * mi + ss))

(***************************************************************************)
(* server.py: get_training_load.                                           *)
(***************************************************************************)
\* `weeks = min(arguments.get("weeks", 8), 16)`
ClampWeeks(arguments) == Min(Get(arguments, "weeks", DefaultWeeks), MaxWeeks)

\* start_date of _get_training_load called at the datetime `now`
LoadStartDate(arguments, now) ==
    LET weeks == ClampWeeks(arguments)
        start_of_week == MinusDays(now, weekday(now))
    IN  MinusDays(start_of_week, 7 * (weeks - 1))

\* a request that leaves per_page to the default of get_activities
LoadRequest_default_size(arguments, now) ==
    LET after == timestamp(LoadStartDate(arguments, now))
    IN  IF after # 0
        THEN [per_page |-> 30, page |-> 1, after |-> after]
        ELSE [per_page |-> 30, page |-> 1]

\* params of get_activities(per_page=200, after=after_timestamp)
LoadRequest(arguments, now) ==
    LET after == timestamp(LoadStartDate(arguments, now))
    IN  IF after # 0
        THEN [per_page |-> PerPage, page |-> 1, after |-> after]
        ELSE [per_page |-> PerPage, page |-> 1]

\* weeks that start on Sunday
WeekKey_sunday(run) ==
    LET run_date == fromisoformat(StripZ(run.start_date_local)).some
        week_start == MinusDays(run_date, (weekday(run_date) + 1) % 7)
    IN  strftime_date(week_start)

\* week_key of a run whose start_date_local parses
WeekKey(run) ==
    LET run_date == fromisoformat(StripZ(run.start_date_local)).some
        week_start == MinusDays(run_date, weekday(run_date))
    IN  strftime_date(week_start)

ZeroWeek(week_key) ==
    [week_of |-> week_key, runs |-> 0, distance_meters |-> 0,
     time_seconds |-> 0, elevation_meters |-> 0]

\* one pass of the body of `for run in runs` in _get_training_load
WeeklyStep(weekly_data, run) ==
    LET week_key == WeekKey(run)
        old == IF week_key \in DOMAIN weekly_data THEN weekly_data[week_key]
               ELSE ZeroWeek(week_key)
        new == [week_of |-> week_key,
                runs |-> old.runs + 1,
                distance_meters |-> old.distance_meters + Get(run, "distance", 0),
                time_seconds |-> old.time_seconds + Get(run, "moving_time", 0),
                elevation_meters |-> old.elevation_meters
                                       + Get(run, "total_elevation_gain", 0)]
    IN  (week_key :> new) @@ weekly_data

\* the loop over runs[lo..hi] in order (halved like YearlyLoop)
RECURSIVE WeeklyLoop(_, _, _, _)
WeeklyLoop(runs, lo, hi, weekly_data) ==
    IF lo > hi THEN weekly_data
    ELSE IF lo = hi THEN WeeklyStep(weekly_data, runs[lo])
    ELSE LET mid == (lo + hi) \div 2
             first == WeeklyLoop(runs, lo, mid, weekly_data)
         IN  IF first = first THEN WeeklyLoop(runs, mid + 1, hi, first) ELSE first

\* one element of formatted_weeks; distance_km in tenths of a km
FormatWeek(week) ==
    [week_of |-> week.week_of,
     runs |-> week.runs,
     distance |-> format_distance(week.distance_meters),
     distance_km |-> RoundDiv(week.distance_meters, 100),
     time |-> format_duration(week.time_seconds),
     elevation |-> Str(week.elevation_meters) \o <<109>>]

\* the exception the grouping loop raises on its first run without a usable
\* start_date_local, or "none"
LoadRaises(runs) ==
    LET bad == {i \in 1..Len(runs) :
                  \/ "start_date_local" \notin DOMAIN runs[i]
                  \/ fromisoformat(StripZ(runs[i].start_date_local)) = None}
    IN  IF bad = {} THEN "none"
        ELSE LET i == CHOOSE k \in bad : \A l \in bad : k <= l
             IN  IF "start_date_local" \notin DOMAIN runs[i] THEN "KeyError"
                 ELSE "ValueError"

\* the averages cut off after the first decimal instead of rounded
LoadResult_truncating(sorted_weeks, formatted_weeks) ==
    LET n == Len(formatted_weeks)
    IN  [weeks_analyzed |-> n,
         weekly_breakdown |-> formatted_weeks,
         average_weekly_distance_km |->
             IF n > 0 THEN SumField(formatted_weeks, "distance_km") \div n ELSE 0,
         average_runs_per_week |->
             IF n > 0 THEN (10 * SumField(formatted_weeks, "runs")) \div n ELSE 0,
         total_distance |-> format_distance(SumField(sorted_weeks, "distance_meters")),
         total_runs |-> SumField(sorted_weeks, "runs")]

\* the return statement of _get_training_load; the two averages are in tenths
LoadResult(sorted_weeks, formatted_weeks) ==
    LET n == Len(formatted_weeks)
    IN  [weeks_analyzed |-> n,
         weekly_breakdown |-> formatted_weeks,
         average_weekly_distance_km |->
             IF n > 0 THEN RoundDiv(SumField(formatted_weeks, "distance_km"), n) ELSE 0,
         average_runs_per_week |->
             IF n > 0 THEN RoundDiv(10 * SumField(formatted_weeks, "runs"), n) ELSE 0,
         total_distance |-> format_distance(SumField(sorted_weeks, "distance_meters")),
         total_runs |-> SumField(sorted_weeks, "runs")]

\* every week from the first to the last with a run, the empty ones zero-filled
SortedWeeks_filled(weekly_data) ==
    LET keys == Sorted(DOMAIN weekly_data)
        first == fromisoformat(keys[1]).some
        last == fromisoformat(keys[Len(keys)]).some
        keyAt(i) == strftime_date(MinusDays(first, -7 * (i - 1)))
    IN  IF keys = <<>> THEN <<>>
        ELSE [i \in 1..((last.days - first.days) \div 7 + 1) |->
                 IF keyAt(i) \in DOMAIN weekly_data THEN weekly_data[keyAt(i)]
                 ELSE ZeroWeek(keyAt(i))]

\* sorted(weekly_data.values(), key=lambda x: x["week_of"])
SortedWeeks(weekly_data) ==
    LET keys == Sorted(DOMAIN weekly_data)
    IN  [i \in 1..Len(keys) |-> weekly_data[keys[i]]]

\* _get_training_load after the await, for the fetched activities.  Each
\* intermediate value is bound once (as the element of a singleton) and then
\* used, as the assignments of the code do.
TrainingLoad(activities) ==
    CHOOSE result \in
        {LoadResult(sorted_weeks, [i \in 1..Len(sorted_weeks) |->
                                       FormatWeek(sorted_weeks[i])]) :
            sorted_weeks \in
                {SortedWeeks(weekly_data) :
                    weekly_data \in
                        {WeeklyLoop(runs, 1, Len(runs), <<>>) :
                            runs \in {SelectSeq(activities, IsRun)}}}} : TRUE

(***************************************************************************)
(* The remote athlete history that get_training_load is answered from.     *)
(***************************************************************************)
\* "YYYY-MM-DDTHH:MM:SSZ"
IsoStamp(y, m, d, hh, mi, ss) ==
    IsoDay(y, m, d) \o <<84>> \o Pad2(hh) \o <<58>> \o Pad2(mi) \o <<58>> \o Pad2(ss)
        \o <<90>>

History ==
    << [id |-> 11, type |-> "Run", start_date_local |-> IsoStamp(2023, 12, 31, 9, 0, 0),
        distance |-> 10000, moving_time |-> 3000, total_elevation_gain |-> 100],
       [id |-> 12, type |-> "Run", start_date_local |-> IsoStamp(2024, 2, 12, 7, 30, 0),
        distance |-> 5000, moving_time |-> 1500, total_elevation_gain |-> 20],
       [id |-> 13, type |-> "Run", start_date_local |-> IsoStamp(2024, 2, 26, 7, 30, 0),
        distance |-> 8000, moving_time |-> 2500],
       [id |-> 14, type |-> "Run", start_date_local |-> IsoStamp(2024, 3, 3, 18, 0, 0),
        distance |-> 12550, moving_time |-> 4000, total_elevation_gain |-> 30],
       [id |-> 19, type |-> "Run", start_date |-> IsoStamp(2024, 3, 4, 5, 0, 0),
        start_date_local |-> IsoStamp(2024, 3, 3, 21, 0, 0),
        distance |-> 6000, moving_time |-> 2000],
       [id |-> 15, type |-> "Run", start_date_local |-> IsoStamp(2024, 3, 4, 7, 30, 0),
        distance |-> 5000, moving_time |-> 1600],
       [id |-> 16, type |-> "Ride", start_date_local |-> IsoStamp(2024, 3, 5, 12, 0, 0),
        distance |-> 30000, moving_time |-> 3600],
       [id |-> 17, type |-> "Run", start_date_local |-> IsoStamp(2024, 3, 6, 6, 0, 0),
        distance |-> 7000, moving_time |-> 2100, total_elevation_gain |-> 5],
       [id |-> 18, type |-> "Run", distance |-> 1000] >>

\* the start of an activity as the remote knows it: its start_date (UTC),
\* which is its local start date unless the run took place in another time
\* zone (an activity the remote holds without a start date is taken to be the
\* newest)
StartOf(a) ==
    IF "start_date" \in DOMAIN a
    THEN timestamp(fromisoformat(StripZ(a.start_date)).some)
    ELSE IF "start_date_local" \in DOMAIN a
    THEN timestamp(fromisoformat(StripZ(a.start_date_local)).some)
    ELSE timestamp(DateTime(2024, 3, 10, 86399))

\* the subsequence of s at the indices I
RECURSIVE Pick(_, _, _)
Pick(s, I, i) ==
    IF i > Len(s) THEN <<>>
    ELSE (IF i \in I THEN <<s[i]>> ELSE <<>>) \o Pick(s, I, i + 1)

\* a run every four hours from 2024-02-01 00:00 on, the i-th of them
StreakRun(i) ==
    LET t == DaysFromCivil(2024, 2, 1) * 86400 + 14400 * (i - 1)
        c == CivilFromDays(t \div 86400)
    IN  [id |-> 2000 + i, type |-> "Run",
         start_date_local |-> IsoStamp(c[1], c[2], c[3], (t % 86400) \div 3600, 0, 0),
         distance |-> 5000, moving_time |-> 1500]

\* an athlete with more runs than one page holds
Streak == [i \in 1..MaxStreak |-> StreakRun(i)]

\* responses of GET /athlete/activities to `params`, the athlete holding any
\* part of History or the whole Streak: the activities starting at or after
\* params.after, oldest first, at most per_page of them (the first page)
RemoteAfter(params) ==
    LET after == Get(params, "after", 0)
        held == {I \in SUBSET (1..Len(History)) :
                    \A i \in I : StartOf(History[i]) >= after}
    IN  {Slice(Pick(History, I, 1), params.per_page) : I \in held}
        \cup {Slice(SelectSeq(Streak, LAMBDA a : StartOf(a) >= after), params.per_page)}

(***************************************************************************)
(* storage.py: goals and races.  A stored record keeps its optional fields *)
(* (deadline, notes, goal_time, location) as None or Some(v).              *)
(***************************************************************************)
\* _load_json: the list in the file, [] when the file does not exist
_load_json(file) == IF file.exists THEN file.data ELSE <<>>

OptionalFields == {"deadline", "notes", "goal_time", "location"}
Stored(key, value) == IF key \in OptionalFields THEN Some(value) ELSE value

\* the index of the first record of `records` whose id is `id`, or 0
FirstWithId(records, id) ==
    LET hits == {i \in 1..Len(records) : records[i].id = id}
    IN  IF hits = {} THEN 0 ELSE CHOOSE i \in hits : \A k \in hits : i <= k

\* add_goal; uuid is str(uuid.uuid4())[:8], now is datetime.now().isoformat()
add_goal(file, goal_type, target, deadline, notes, uuid, now) ==
    LET goal == [id |-> uuid, type |-> goal_type, target |-> target,
                 deadline |-> deadline, notes |-> notes, created_at |-> now,
                 completed |-> FALSE]
    IN  [file |-> _save_json(file, Append(_load_json(file), goal)), result |-> goal]

\* update_goal / update_race: the first record with the id gets the allowed
\* updates and updated_at and the list is saved; None when there is none
UpdateRecord(file, id, updates, allowed, now) ==
    LET records == _load_json(file)
        i == FirstWithId(records, id)
        old == records[i]
        changed == DOMAIN updates \cap allowed
        new == [k \in DOMAIN old \cup changed \cup {"updated_at"} |->
                   IF k = "updated_at" THEN now
                   ELSE IF k \in changed THEN updates[k] ELSE old[k]]
    IN  IF i = 0 THEN [file |-> file, result |-> None]
        ELSE [file |-> _save_json(file, [records EXCEPT ![i] = new]),
              result |-> Some(new)]

update_goal(file, goal_id, updates, now) ==
    UpdateRecord(file, goal_id, updates,
                 {"type", "target", "deadline", "notes", "completed"}, now)

\* a delete that writes the list back whether or not it got shorter
DeleteRecord_saving(file, id) ==
    LET records == _load_json(file)
        kept == SelectSeq(records, LAMBDA r : r.id # id)
    IN  [file |-> _save_json(file, kept), result |-> Len(kept) < Len(records)]

\* delete_goal / delete_race: the records with another id are kept; the list
\* is saved only if it got shorter
DeleteRecord(file, id) ==
    LET records == _load_json(file)
        kept == SelectSeq(records, LAMBDA r : r.id # id)
    IN  IF Len(kept) < Len(records)
        THEN [file |-> _save_json(file, kept), result |-> TRUE]
        ELSE [file |-> file, result |-> FALSE]

delete_goal(file, goal_id) == DeleteRecord(file, goal_id)

add_race(file, name, date, distance, goal_time, location, notes, uuid, now) ==
    LET race == [id |-> uuid, name |-> name, date |-> date, distance |-> distance,
                 goal_time |-> goal_time, location |-> location, notes |-> notes,
                 created_at |-> now]
    IN  [file |-> _save_json(file, Append(_load_json(file), race)), result |-> race]

update_race(file, race_id, updates, now) ==
    UpdateRecord(file, race_id, updates,
                 {"name", "date", "distance", "goal_time", "location", "notes"}, now)

delete_race(file, race_id) == DeleteRecord(file, race_id)

(***************************************************************************)
(* server.py: the goal and race tools.  A handler's outcome is             *)
(* [file, value] or [file, raised, message]; file is what the handler      *)
(* leaves in its JSON file.                                                *)
(***************************************************************************)
\* truth value of arguments.get(k) for a str argument
Truthy(arguments, k) == k \in DOMAIN arguments /\ arguments[k] # ""
\* arguments.get(k) compared with a stored id: None equals no stored id
IdArg(arguments, k) == IF k \in DOMAIN arguments THEN arguments[k] ELSE "None"

\* the `updates` dict built from the arguments
UpdatesFrom(arguments, keys) ==
    [k \in {IF a = "goal_type" THEN "type" ELSE a : a \in DOMAIN arguments \cap keys} |->
        Stored(k, arguments[IF k = "type" THEN "goal_type" ELSE k])]

NotFound(kind, id) == [success |-> FALSE, message |-> kind \o " " \o id \o " not found"]

_set_goal(file, arguments, uuid, now) ==
    IF Truthy(arguments, "goal_id")
    THEN LET updates == UpdatesFrom(arguments,
                            {"goal_type", "target", "deadline", "notes", "completed"})
             r == update_goal(file, arguments.goal_id, updates, now)
         IN  IF r.result # None
             THEN [file |-> r.file, value |-> [success |-> TRUE, goal |-> r.result.some]]
             ELSE [file |-> r.file, value |-> NotFound("Goal", arguments.goal_id)]
    ELSE IF ~Truthy(arguments, "goal_type") \/ ~Truthy(arguments, "target")
         THEN [file |-> file, raised |-> "ValueError",
               message |-> "goal_type and target are required for new goals"]
         ELSE LET r == add_goal(file, arguments.goal_type, arguments.target,
                                OptGet(arguments, "deadline"),
                                OptGet(arguments, "notes"), uuid, now)
              IN  [file |-> r.file, value |-> [success |-> TRUE, goal |-> r.result]]

\* the delete_goal branch of _handle_tool
HandleDeleteGoal(file, arguments) ==
    LET goal_id == IdArg(arguments, "goal_id")
        r == delete_goal(file, goal_id)
    IN  IF r.result
        THEN [file |-> r.file,
              value |-> [success |-> TRUE, message |-> "Goal " \o goal_id \o " deleted"]]
        ELSE [file |-> r.file, value |-> NotFound("Goal", goal_id)]

_add_race(file, arguments, uuid, now) ==
    IF ~(Truthy(arguments, "name") /\ Truthy(arguments, "date")
            /\ Truthy(arguments, "distance"))
    THEN [file |-> file, raised |-> "ValueError",
          message |-> "name, date, and distance are required"]
    ELSE LET r == add_race(file, arguments.name, arguments.date, arguments.distance,
                           OptGet(arguments, "goal_time"),
                           OptGet(arguments, "location"),
                           OptGet(arguments, "notes"), uuid, now)
         IN  [file |-> r.file, value |-> [success |-> TRUE, race |-> r.result]]

_update_race(file, arguments, now) ==
    IF ~Truthy(arguments, "race_id")
    THEN [file |-> file, raised |-> "ValueError", message |-> "race_id is required"]
    ELSE LET updates == UpdatesFrom(arguments,
                            {"name", "date", "distance", "goal_time", "location",
                             "notes"})
             r == update_race(file, arguments.race_id, updates, now)
         IN  IF r.result # None
             THEN [file |-> r.file, value |-> [success |-> TRUE, race |-> r.result.some]]
             ELSE [file |-> r.file, value |-> NotFound("Race", arguments.race_id)]

\* the delete_race branch of _handle_tool
HandleDeleteRace(file, arguments) ==
    LET race_id == IdArg(arguments, "race_id")
        r == delete_race(file, race_id)
    IN  IF r.result
        THEN [file |-> r.file,
              value |-> [success |-> TRUE, message |-> "Race " \o race_id \o " deleted"]]
        ELSE [file |-> r.file, value |-> NotFound("Race", race_id)]

\* the tools of _handle_tool that work on goals.json / on races.json
GoalTools == {"get_goals", "set_goal", "delete_goal"}
RaceTools == {"get_races", "add_race", "update_race", "delete_race"}

\* _handle_tool for a goal tool, a race tool or a name it does not know
HandleGoalTool(name, file, arguments, uuid, now) ==
    IF name = "get_goals" THEN [file |-> file, value |-> [goals |-> _load_json(file)]]
    ELSE IF name = "set_goal" THEN _set_goal(file, arguments, uuid, now)
    ELSE HandleDeleteGoal(file, arguments)

HandleRaceTool(name, file, arguments, uuid, now) ==
    IF name = "get_races" THEN [file |-> file, value |-> [races |-> _load_json(file)]]
    ELSE IF name = "add_race" THEN _add_race(file, arguments, uuid, now)
    ELSE IF name = "update_race" THEN _update_race(file, arguments, now)
    ELSE HandleDeleteRace(file, arguments)

UnknownTool(name) == [raised |-> "ValueError", message |-> "Unknown tool: " \o name]

(***************************************************************************)
(* The state machine.                                                      *)
(***************************************************************************)
NoResponse == [tool |-> "none"]
NoCall == [tool |-> "none"]

Init ==
    /\ cacheFile = NoFile
    /\ clock = 0
    /\ pc = [t \in Tasks |-> "idle"]
    /\ page = [t \in Tasks |-> 1]
    /\ all_activities = [t \in Tasks |-> <<>>]
    /\ calls = [t \in Tasks |-> <<>>]
    /\ sent = [t \in Tasks |-> <<>>]
    /\ saves = [t \in Tasks |-> 0]
    /\ cacheAtStart = [t \in Tasks |-> NoFile]
    /\ lastSaved = <<>>
    /\ response = NoResponse
    /\ received = [t \in Tasks |-> <<>>]
    /\ pending = NoCall
    /\ goalsFile = NoFile
    /\ racesFile = NoFile
    /\ tokensFile = NoFile

Raised(t, exc) == [tool |-> "sync_all_activities", task |-> t, raised |-> exc]

\* call_tool("sync_all_activities") up to its first suspension: the first
\* _request gets a token (auth: _get_access_token does not raise) and sends
\* the request for page 1
SyncStart(t, auth) ==
    /\ response = NoResponse
    /\ pc[t] = "idle"
    /\ clock + Cardinality({u \in Tasks : pc[u] = "await"}) < MaxClock
    /\ page' = [page EXCEPT ![t] = 1]
    /\ all_activities' = [all_activities EXCEPT ![t] = <<>>]
    /\ calls' = [calls EXCEPT ![t] = <<1>>]
    /\ saves' = [saves EXCEPT ![t] = 0]
    /\ cacheAtStart' = [cacheAtStart EXCEPT ![t] = cacheFile]
    /\ received' = [received EXCEPT ![t] = <<>>]
    /\ IF auth
       THEN /\ sent' = [sent EXCEPT ![t] = <<1>>]
            /\ pc' = [pc EXCEPT ![t] = "await"]
            /\ UNCHANGED response
       ELSE /\ sent' = [sent EXCEPT ![t] = <<>>]
            /\ response' = Raised(t, "ValueError")
            /\ UNCHANGED pc
    /\ UNCHANGED <<cacheFile, clock, lastSaved, others>>

\* one list shared by every call: the list of task 1
OwnList_shared(t) == all_activities[1]

\* all_activities is a local variable of the call
OwnList(t) == all_activities[t]

\* a loop that asks for the same page again
NextPage_same(p) == p

\* page += 1
NextPage(p) == p + 1

\* an accumulator that puts the newest page first
Accumulate_newest_first(all, activities) == activities \o all

\* all_activities.extend(activities)
Accumulate(all, activities) == all \o activities

\* the awaited request returns `activities`: the rest of the loop body, then
\* either the next request (up to its suspension) or the return of
\* get_all_activities and the rest of _sync_all_activities
PageResponse(t, activities, auth) ==
    /\ response = NoResponse
    /\ pc[t] = "await"
    /\ received' = [received EXCEPT ![t] = Append(received[t], activities)]
    /\ UNCHANGED others
    /\ \E acc \in {Accumulate(OwnList(t), activities)} :
           IF NextPageWanted(activities)
              THEN /\ page' = [page EXCEPT ![t] = NextPage(page[t])]
                   /\ calls' = [calls EXCEPT ![t] = Append(calls[t], NextPage(page[t]))]
                   /\ IF auth
                      THEN /\ sent' = [sent EXCEPT ![t] = Append(sent[t], NextPage(page[t]))]
                           /\ all_activities' = [all_activities EXCEPT ![t] = acc]
                           /\ UNCHANGED <<pc, response>>
                      ELSE /\ pc' = [pc EXCEPT ![t] = "idle"]
                           /\ all_activities' = [all_activities EXCEPT ![t] = <<>>]
                           /\ response' = Raised(t, "ValueError")
                           /\ UNCHANGED sent
                   /\ UNCHANGED <<cacheFile, clock, saves, lastSaved, cacheAtStart>>
              ELSE /\ cacheFile' = save_activities_cache(cacheFile, acc, clock + 1)
                   /\ clock' = clock + 1
                   /\ saves' = [saves EXCEPT ![t] = saves[t] + 1]
                   /\ lastSaved' = acc
                   /\ pc' = [pc EXCEPT ![t] = "idle"]
                   /\ all_activities' = [all_activities EXCEPT ![t] = <<>>]
                   /\ response' = [tool |-> "sync_all_activities", task |-> t,
                                   value |-> SyncSummary(acc)]
                   /\ UNCHANGED <<page, calls, sent, cacheAtStart>>

\* a failure handler that keeps what was fetched: it saves the partial list
PageFailure_saving(t, exc) ==
    /\ response = NoResponse
    /\ pc[t] = "await"
    /\ pc' = [pc EXCEPT ![t] = "idle"]
    /\ all_activities' = [all_activities EXCEPT ![t] = <<>>]
    /\ cacheFile' = save_activities_cache(cacheFile, all_activities[t], clock + 1)
    /\ clock' = clock + 1
    /\ saves' = [saves EXCEPT ![t] = saves[t] + 1]
    /\ lastSaved' = all_activities[t]
    /\ response' = Raised(t, exc)
    /\ UNCHANGED <<page, calls, sent, cacheAtStart, received, others>>

\* the awaited request raises: a transport error from client.request or an
\* HTTPStatusError from raise_for_status; nothing catches it below call_tool
PageFailure(t, exc) ==
    /\ response = NoResponse
    /\ pc[t] = "await"
    /\ pc' = [pc EXCEPT ![t] = "idle"]
    /\ all_activities' = [all_activities EXCEPT ![t] = <<>>]
    /\ response' = Raised(t, exc)
    /\ UNCHANGED <<cacheFile, clock, page, calls, sent, saves, cacheAtStart,
                   lastSaved, received, others>>

\* a search that is suspended between its two reads of the cache while the
\* last page of a sync arrives: its metadata are those of the cache before the
\* sync's save, its activities those of the cache after it
SearchActivities_suspending(arguments) ==
    /\ response = NoResponse
    /\ \E t \in Tasks :
          /\ pc[t] = "await"
          /\ \E acc \in {Accumulate(OwnList(t), RemotePage(2, page[t], 1))} :
                /\ cacheFile' = save_activities_cache(cacheFile, acc, clock + 1)
                /\ clock' = clock + 1
                /\ saves' = [saves EXCEPT ![t] = saves[t] + 1]
                /\ lastSaved' = acc
                /\ received' = [received EXCEPT ![t] =
                                   Append(received[t], RemotePage(2, page[t], 1))]
                /\ pc' = [pc EXCEPT ![t] = "idle"]
                /\ all_activities' = [all_activities EXCEPT ![t] = <<>>]
                /\ response' =
                      [tool |-> "search_activities", arguments |-> arguments,
                       value |-> IF NotCache(get_activities_cache(cacheFile))
                                 THEN _search_activities(cacheFile, arguments)
                                 ELSE [_search_activities(cacheFile', arguments) EXCEPT
                                          !.cache_updated = cacheFile.data.updated_at,
                                          !.total_cached = cacheFile.data.count]]
    /\ UNCHANGED <<page, calls, sent, cacheAtStart, others>>

SearchActivities(arguments) ==
    /\ response = NoResponse
    /\ response' = [tool |-> "search_activities", arguments |-> arguments,
                    value |-> _search_activities(cacheFile, arguments)]
    /\ UNCHANGED <<cacheFile, clock, pc, page, all_activities, calls, sent, saves,
                   cacheAtStart, lastSaved, received, others>>

GetYearlyStats(arguments) ==
    /\ response = NoResponse
    /\ response' = [tool |-> "get_yearly_stats", arguments |-> arguments,
                    value |-> _get_yearly_stats(cacheFile, arguments)]
    /\ UNCHANGED <<cacheFile, clock, pc, page, all_activities, calls, sent, saves,
                   cacheAtStart, lastSaved, received, others>>

QueryCachedActivities(p) ==
    /\ response = NoResponse
    /\ response' = [tool |-> "query_cached_activities", arguments |-> p,
                    value |-> query_cached_activities(cacheFile, p)]
    /\ UNCHANGED <<cacheFile, clock, pc, page, all_activities, calls, sent, saves,
                   cacheAtStart, lastSaved, received, others>>

\* call_tool's result is written to the client (and the logs of the call that
\* produced it are dropped)
Deliver ==
    /\ response # NoResponse
    /\ response' = NoResponse
    /\ LET done == IF "task" \in DOMAIN response THEN {response.task} ELSE {}
       IN  /\ calls' = [t \in Tasks |-> IF t \in done THEN <<>> ELSE calls[t]]
           /\ sent' = [t \in Tasks |-> IF t \in done THEN <<>> ELSE sent[t]]
           /\ saves' = [t \in Tasks |-> IF t \in done THEN 0 ELSE saves[t]]
           /\ cacheAtStart' = [t \in Tasks |-> IF t \in done THEN NoFile
                                                ELSE cacheAtStart[t]]
           /\ page' = [t \in Tasks |-> IF t \in done THEN 1 ELSE page[t]]
           /\ received' = [t \in Tasks |-> IF t \in done THEN <<>> ELSE received[t]]
    /\ UNCHANGED <<cacheFile, clock, pc, all_activities, lastSaved, others>>

\* call_tool("get_training_load") up to its suspension in client.request:
\* the boundary is computed from datetime.now() and the one request is sent
\* (auth: _get_access_token does not raise)
LoadStart(arguments, now, auth) ==
    /\ response = NoResponse
    /\ pending = NoCall
    /\ IF auth
       THEN /\ pending' = [tool |-> "get_training_load", arguments |-> arguments,
                           now |-> now, requests |-> <<LoadRequest(arguments, now)>>]
            /\ UNCHANGED response
       ELSE /\ response' = [tool |-> "get_training_load", arguments |-> arguments,
                            now |-> now, requests |-> <<>>, raised |-> "ValueError"]
            /\ UNCHANGED pending
    /\ UNCHANGED <<cacheFile, clock, pc, page, all_activities, calls, sent, saves,
                   cacheAtStart, lastSaved, received, goalsFile, racesFile,
                   tokensFile>>

\* the awaited request returns `activities`: the rest of _get_training_load
LoadResponse(activities) ==
    /\ response = NoResponse
    /\ pending # NoCall
    /\ pending' = NoCall
    /\ LET raises == LoadRaises(SelectSeq(activities, IsRun))
           call == [tool |-> "get_training_load", arguments |-> pending.arguments,
                    now |-> pending.now, requests |-> pending.requests,
                    fetched |-> activities]
       IN  response' = IF raises = "none"
                       THEN call @@ [value |-> TrainingLoad(activities)]
                       ELSE call @@ [raised |-> raises]
    /\ UNCHANGED <<cacheFile, clock, pc, page, all_activities, calls, sent, saves,
                   cacheAtStart, lastSaved, received, goalsFile, racesFile,
                   tokensFile>>

\* the awaited request raises
LoadFailure(exc) ==
    /\ response = NoResponse
    /\ pending # NoCall
    /\ pending' = NoCall
    /\ response' = [tool |-> "get_training_load", arguments |-> pending.arguments,
                    now |-> pending.now, requests |-> pending.requests,
                    raised |-> exc]
    /\ UNCHANGED <<cacheFile, clock, pc, page, all_activities, calls, sent, saves,
                   cacheAtStart, lastSaved, received, goalsFile, racesFile,
                   tokensFile>>

\* the formatters of strava.py called on their own
FormatActivitySummary(activity, compact) ==
    /\ response = NoResponse
    /\ response' = [tool |-> "format_activity_summary",
                    arguments |-> [activity |-> activity, compact |-> compact],
                    value |-> format_activity_summary(activity, compact)]
    /\ UNCHANGED <<cacheFile, clock, pc, page, all_activities, calls, sent, saves,
                   cacheAtStart, lastSaved, received, others>>

FormatDuration(seconds) ==
    /\ response = NoResponse
    /\ response' = [tool |-> "format_duration", arguments |-> seconds,
                    value |-> format_duration(seconds)]
    /\ UNCHANGED <<cacheFile, clock, pc, page, all_activities, calls, sent, saves,
                   cacheAtStart, lastSaved, received, others>>

\* call_tool with a goal tool: synchronous, one step
GoalTool(name, arguments, uuid, now) ==
    /\ response = NoResponse
    /\ LET outcome == HandleGoalTool(name, goalsFile, arguments, uuid, now)
       IN  /\ Len(_load_json(outcome.file)) + Len(_load_json(racesFile)) <= MaxRecords
           /\ goalsFile' = outcome.file
           /\ response' = [k \in {"tool", "arguments"} \cup (DOMAIN outcome \ {"file"}) |->
                              IF k = "tool" THEN name
                              ELSE IF k = "arguments" THEN arguments
                              ELSE outcome[k]]
    /\ UNCHANGED <<cacheFile, clock, pc, page, all_activities, calls, sent, saves,
                   cacheAtStart, lastSaved, received, pending, racesFile, tokensFile>>

\* call_tool with a race tool
RaceTool(name, arguments, uuid, now) ==
    /\ response = NoResponse
    /\ LET outcome == HandleRaceTool(name, racesFile, arguments, uuid, now)
       IN  /\ Len(_load_json(outcome.file)) + Len(_load_json(goalsFile)) <= MaxRecords
           /\ racesFile' = outcome.file
           /\ response' = [k \in {"tool", "arguments"} \cup (DOMAIN outcome \ {"file"}) |->
                              IF k = "tool" THEN name
                              ELSE IF k = "arguments" THEN arguments
                              ELSE outcome[k]]
    /\ UNCHANGED <<cacheFile, clock, pc, page, all_activities, calls, sent, saves,
                   cacheAtStart, lastSaved, received, pending, goalsFile, tokensFile>>

\* call_tool with a name that _handle_tool has no branch for
OtherTool(name, arguments) ==
    /\ response = NoResponse
    /\ response' = [tool |-> name, arguments |-> arguments] @@ UnknownTool(name)
    /\ UNCHANGED <<cacheFile, clock, pc, page, all_activities, calls, sent, saves,
                   cacheAtStart, lastSaved, received, others>>

\* str(e) of the exception a handler raised; for the exceptions that carry no
\* message in the model, the text Python and httpx give them
str_e(outcome) ==
    IF "message" \in DOMAIN outcome THEN outcome.message
    ELSE IF outcome.raised = "ValueError"
         THEN "No tokens found. Run 'python -m runcoach.auth' to authenticate."
    ELSE IF outcome.raised = "KeyError" THEN "'start_date_local'"
    ELSE IF outcome.raised = "HTTPStatusError"
         THEN "Client error '401 Unauthorized' for url 'https://www.strava.com/api/v3/athlete/activities'"
    ELSE "All connection attempts failed"

\* a call_tool that returns the exception's text without the "Error: " prefix
call_tool_unprefixed(outcome) ==
    IF "raised" \in DOMAIN outcome
    THEN <<[type |-> "text", text |-> str_e(outcome)]>>
    ELSE <<[type |-> "text", json |-> outcome.value]>>

\* what call_tool returns for the outcome of _handle_tool: one TextContent,
\* holding json.dumps(result) (kept as the document, field json) or the
\* error text
call_tool(outcome) ==
    IF "raised" \in DOMAIN outcome
    THEN <<[type |-> "text", text |-> "Error: " \o str_e(outcome)]>>
    ELSE <<[type |-> "text", json |-> outcome.value]>>

(***************************************************************************)
(* Arguments the tools are called with.                                    *)
(***************************************************************************)
\* every record over a subset of the keys of `choices`, one value per key
RECURSIVE Records(_, _)
Records(keys, choices) ==
    IF keys = {} THEN {EmptyDict}
    ELSE LET k == CHOOSE x \in keys : TRUE
             rest == Records(keys \ {k}, choices)
         IN  rest \cup {[j \in DOMAIN r \cup {k} |-> IF j = k THEN v ELSE r[j]] :
                          r \in rest, v \in choices[k]}

FilterChoices ==
    [activity_type |-> {"Run", ""},
     year |-> {2024, 0},
     min_distance_km |-> {5},
     max_distance_km |-> {10}]

Merge(f, g) == [k \in DOMAIN f \cup DOMAIN g |-> IF k \in DOMAIN f THEN f[k] ELSE g[k]]

QueryArgs ==
    {Merge(f, l) : f \in Records(FilterKeys, FilterChoices),
                   l \in Records({"limit"}, [limit |-> {0, 1}])}

SearchArgs ==
    {Merge(f, l) : f \in {EmptyDict,
                          [min_distance_km |-> 5, max_distance_km |-> 10],
                          [activity_type |-> "Run", year |-> 2024]},
                   l \in Records({"limit"}, [limit |-> {0, 1, -1, 30}])}

LimitArgs == Records({"limit"}, [limit |-> {0, -1, 30}])

YearArgs == Records({"year"}, [year |-> {2024, 2022, 0}])

(***************************************************************************)
(* Spec: one sync at a time against a remote that serves pages of up to    *)
(* PerPage activities and may fail; search_activities runs in between.     *)
(***************************************************************************)
Sync == \E auth \in BOOLEAN : SyncStart(1, auth)
Respond ==
    \E v \in Versions, n \in PageSizes(page[1]), auth \in BOOLEAN :
        \E activities \in {RemotePage(v, page[1], n)} :
            PageResponse(1, activities, auth)
Fail == \E exc \in {"TransportError", "HTTPStatusError"} : PageFailure(1, exc)
Search == \E arguments \in LimitArgs : SearchActivities(arguments)

Next == Sync \/ Respond \/ Fail \/ Search \/ Deliver

Spec == Init /\ [][Next]_vars

\* Spec with the scheduling of one event loop: a page request that keeps
\* waiting is eventually answered, by a page or by an error, and its task
\* resumed (the loop runs ready callbacks in turn), and a result call_tool
\* returned is eventually written to the client
SpecLive == Spec /\ SF_vars(Fail \/ Respond) /\ WF_vars(Deliver)

(***************************************************************************)
(* SpecQuery: the cache holds short lists of the hand-picked activities,   *)
(* and the query functions are called with every combination of filters.   *)
(***************************************************************************)
SyncQ == SyncStart(1, TRUE)
RespondQ == \E activities \in QueryPages : PageResponse(1, activities, TRUE)
QueryQ == \E p \in QueryArgs : QueryCachedActivities(p)
SearchQ == \E arguments \in SearchArgs : SearchActivities(arguments)
YearlyQ == \E arguments \in YearArgs : GetYearlyStats(arguments)

NextQuery == SyncQ \/ RespondQ \/ QueryQ \/ SearchQ \/ YearlyQ \/ Deliver

SpecQuery == Init /\ [][NextQuery]_vars

(***************************************************************************)
(* SpecLoad: get_training_load called at several moments of a week, with   *)
(* several numbers of weeks, against an athlete holding any part of        *)
(* History.                                                                *)
(***************************************************************************)
LoadArgs == Records({"weeks"}, [weeks |-> {1, 2, 20}])

\* datetime.now(): a Wednesday afternoon, a Monday at midnight, a Sunday's
\* last second
LoadNows ==
    {DateTime(2024, 3, 6, 54000), DateTime(2024, 3, 4, 0), DateTime(2024, 3, 10, 86399)}

LoadCall == \E arguments \in LoadArgs, now \in LoadNows, auth \in BOOLEAN :
                LoadStart(arguments, now, auth)
LoadAnswer ==
    /\ pending # NoCall
    /\ \E activities \in RemoteAfter(pending.requests[1]) : LoadResponse(activities)
LoadFail == \E exc \in {"TransportError", "HTTPStatusError"} : LoadFailure(exc)

NextLoad == LoadCall \/ LoadAnswer \/ LoadFail \/ Deliver

SpecLoad == Init /\ [][NextLoad]_vars

(***************************************************************************)
(* SpecFormat: the formatters applied to activities of several types and   *)
(* speeds and to durations around the minute, the hour and the day.        *)
(***************************************************************************)
\* activities with every combination of a type tag and a speed (mm/s), present or not
SummaryInputs ==
    {Merge(Merge(t, v), [id |-> 7, distance |-> 5000, moving_time |-> 1500,
                         start_date_local |-> IsoStamp(2024, 3, 4, 7, 30, 0)]) :
        t \in Records({"type"}, [type |-> {"Run", "Ride", "VirtualRun", ""}]),
        v \in Records({"average_speed"}, [average_speed |-> {0, 3333, 1000, 12000}])}

Durations ==
    (0..130) \cup (3590..3670) \cup {7199, 7200, 86399, 86400, 359999, 360000}

Summarise == \E activity \in SummaryInputs, compact \in BOOLEAN :
                 FormatActivitySummary(activity, compact)
Duration == \E seconds \in Durations : FormatDuration(seconds)

NextFormat == Summarise \/ Duration \/ Deliver

SpecFormat == Init /\ [][NextFormat]_vars

(***************************************************************************)
(* SpecTools: the goal and race tools, unknown tool names, and syncs that  *)
(* fail on authentication or in transport.                                 *)
(***************************************************************************)
\* str(uuid.uuid4())[:8]
Uuids == {"a1", "b2"}
\* datetime.now().isoformat()
Stamps == {1}

GoalArgs ==
    Records({"goal_id", "goal_type", "target"},
            [goal_id |-> {"a1", "zz", ""}, goal_type |-> {"pace"},
             target |-> {"sub-20 5K"}])
RaceArgs ==
    Records({"race_id", "name", "date", "distance"},
            [race_id |-> {"a1", "zz", ""}, name |-> {"Berlin"},
             date |-> {"2024-09-29"}, distance |-> {"Marathon"}])

Goals == \E name \in GoalTools, arguments \in GoalArgs, uuid \in Uuids, now \in Stamps :
             GoalTool(name, arguments, uuid, now)
Races == \E name \in RaceTools, arguments \in RaceArgs, uuid \in Uuids, now \in Stamps :
             RaceTool(name, arguments, uuid, now)
Unknown == \E name \in {"get_weather", ""} : OtherTool(name, EmptyDict)

NextTools == Goals \/ Races \/ Unknown \/ Sync \/ Fail \/ Deliver

SpecTools == Init /\ [][NextTools]_vars

(***************************************************************************)
(* auth.py: the token store.  tokens.json holds the dict the token         *)
(* endpoint answered, to which run_auth_flow adds the client credentials.  *)
(* Every function here is synchronous (blocking httpx.Client), so a call   *)
(* of _get_access_token is one step.  Times are whole seconds.             *)
(***************************************************************************)
ExpiryBuffer == 60

\* load_tokens: the dict in tokens.json, None when there is no file
load_tokens(file) == IF file.exists THEN file.data ELSE None

\* save_tokens
save_tokens(tokens) == [exists |-> TRUE, data |-> tokens]

\* `not tokens` for what load_tokens returned
NoTokens(tokens) == tokens = None \/ DOMAIN tokens = {}

\* an expiry test without the 60 second buffer
is_token_expired_unbuffered(tokens, now) == now > Get(tokens, "expires_at", 0)

\* is_token_expired; now is time.time()
is_token_expired(tokens, now) == now > Get(tokens, "expires_at", 0) - ExpiryBuffer

\* refresh_access_token: the form posted to the token endpoint
RefreshForm(client_id, client_secret, refresh_token) ==
    [client_id |-> client_id, client_secret |-> client_secret,
     grant_type |-> "refresh_token", refresh_token |-> refresh_token]

\* get_valid_token.  reply is what the token endpoint does when asked:
\* [json |-> dict] or [raised |-> exception] (raise_for_status, transport).
\* The outcome holds the file afterwards, the forms posted, the number of
\* save_tokens calls and the value returned or the exception raised.
get_valid_token(file, client_id, client_secret, now, reply) ==
    LET tokens == load_tokens(file)
    IN  IF NoTokens(tokens)
        THEN [file |-> file, posts |-> <<>>, writes |-> 0, value |-> None]
        ELSE IF is_token_expired(tokens, now)
        THEN IF "refresh_token" \notin DOMAIN tokens
             THEN [file |-> file, posts |-> <<>>, writes |-> 0, raised |-> "KeyError",
                   message |-> "'refresh_token'"]
             ELSE LET post == RefreshForm(client_id, client_secret, tokens.refresh_token)
                  IN  IF "raised" \in DOMAIN reply
                      THEN [file |-> file, posts |-> <<post>>, writes |-> 0,
                            raised |-> reply.raised]
                      ELSE LET new_tokens ==
                                   IF "athlete" \in DOMAIN tokens
                                      /\ "athlete" \notin DOMAIN reply.json
                                   THEN reply.json @@ [athlete |-> tokens.athlete]
                                   ELSE reply.json
                           IN  [file |-> save_tokens(new_tokens), posts |-> <<post>>,
                                writes |-> 1, value |-> new_tokens.access_token]
        ELSE [file |-> file, posts |-> <<>>, writes |-> 0, value |-> tokens.access_token]

\* StravaClient._get_access_token
_get_access_token(file, now, reply) ==
    LET tokens == load_tokens(file)
    IN  IF NoTokens(tokens)
        THEN [file |-> file, posts |-> <<>>, writes |-> 0, raised |-> "ValueError",
              message |-> "No tokens found. Run 'python -m runcoach.auth' to authenticate."]
        ELSE IF ~Truthy(tokens, "client_id") \/ ~Truthy(tokens, "client_secret")
        THEN [file |-> file, posts |-> <<>>, writes |-> 0, raised |-> "ValueError",
              message |-> "Client credentials not found in tokens. Re-run authentication."]
        ELSE LET r == get_valid_token(file, tokens.client_id, tokens.client_secret,
                                      now, reply)
             IN  IF "raised" \in DOMAIN r THEN r
                 ELSE IF r.value = ""
                 THEN [file |-> r.file, posts |-> r.posts, writes |-> r.writes,
                       raised |-> "ValueError",
                       message |-> "Failed to get valid token. Re-run authentication."]
                 ELSE r

\* run_auth_flow from the exchange of the code on: the answer of the token
\* endpoint is saved with the client credentials; a failure is printed
run_auth_flow(file, client_id, client_secret, reply) ==
    IF "raised" \in DOMAIN reply THEN file
    ELSE save_tokens([client_id |-> client_id, client_secret |-> client_secret]
                     @@ reply.json)

\* a request of the client asks for its token
GetAccessToken(now, reply) ==
    /\ response = NoResponse
    /\ LET r == _get_access_token(tokensFile, now, reply)
       IN  /\ tokensFile' = r.file
           /\ response' = [tool |-> "_get_access_token", now |-> now, reply |-> reply]
                          @@ [k \in DOMAIN r \ {"file"} |-> r[k]]
    /\ UNCHANGED <<cacheFile, clock, pc, page, all_activities, calls, sent, saves,
                   cacheAtStart, lastSaved, received, pending, goalsFile, racesFile>>

\* python -m runcoach.auth is run to its end
RunAuthFlow(client_id, client_secret, reply) ==
    /\ response = NoResponse
    /\ tokensFile' = run_auth_flow(tokensFile, client_id, client_secret, reply)
    /\ UNCHANGED <<cacheFile, clock, pc, page, all_activities, calls, sent, saves,
                   cacheAtStart, lastSaved, received, pending, goalsFile, racesFile,
                   response>>

(***************************************************************************)
(* SpecAuth: the athlete authenticates (again) now and then, requests ask  *)
(* for the token at times around the two expiry times, and the token       *)
(* endpoint answers with or without the athlete's profile, or fails.       *)
(***************************************************************************)
TokenReplies(access_token, refresh_token, expiries, athlete) ==
    LET bare == {[access_token |-> access_token, refresh_token |-> refresh_token,
                  expires_at |-> e] : e \in expiries}
    IN  {[json |-> j] : j \in bare}
        \cup {[json |-> j @@ [athlete |-> athlete]] : j \in bare}
        \cup {[raised |-> "HTTPStatusError"]}

AuthReplies == TokenReplies("at1", "rt1", {100, 200}, [id |-> 7])
RefreshReplies == TokenReplies("at2", "rt2", {300}, [id |-> 8])
AuthNows == {39, 40, 41, 100, 139, 140, 141, 201}

Authenticate == \E reply \in AuthReplies : RunAuthFlow("cid", "secret", reply)
AskToken == \E now \in AuthNows, reply \in RefreshReplies : GetAccessToken(now, reply)

NextAuth == Authenticate \/ AskToken \/ Deliver

SpecAuth == Init /\ [][NextAuth]_vars

(***************************************************************************)
(* SpecConcurrent: two sync_all_activities calls and searches interleave   *)
(* in one event loop.  The remote's activities change between requests     *)
(* (versions 1 and 2), so that the pages of two syncs differ; a first page *)
(* is short or full, a second page short.  The stored tokens are           *)
(* valid throughout.                                                       *)
(***************************************************************************)
RemoteVersions == {1, 2}
ConcurrentSizes(p) == IF p = 1 THEN {1, PerPage} ELSE {1}

StartAny == \E t \in Tasks : SyncStart(t, TRUE)
AnswerAny ==
    \E t \in Tasks, v \in RemoteVersions :
        \E n \in ConcurrentSizes(page[t]) :
            \E activities \in {RemotePage(v, page[t], n)} :
                PageResponse(t, activities, TRUE)
FailAny == \E t \in Tasks : PageFailure(t, "TransportError")
SearchAny == SearchActivities(EmptyDict)

NextConcurrent == StartAny \/ AnswerAny \/ FailAny \/ SearchAny \/ Deliver

SpecConcurrent == Init /\ [][NextConcurrent]_vars

(***************************************************************************)
(* Properties.                                                             *)
(***************************************************************************)
SyncDone(t) ==
    /\ response.tool = "sync_all_activities"
    /\ response.task = t
    /\ "value" \in DOMAIN response
SyncFailed(t) ==
    /\ response.tool = "sync_all_activities"
    /\ response.task = t
    /\ "raised" \in DOMAIN response

\* <<1, 2, ..., n>>
Upto(n) == [i \in 1..n |-> i]

\* C1: while a sync waits for page k it has called pages 1..k, once each, and
\* every earlier page was full (it never went on after a short page); when it
\* has returned N activities it has requested exactly pages 1..(N div 200)+1,
\* and no request is in flight.
C1_PageRequests ==
    \A t \in Tasks :
        /\ pc[t] = "await" =>
              /\ calls[t] = Upto(page[t])
              /\ sent[t] = calls[t]
              /\ Len(all_activities[t]) = (page[t] - 1) * PerPage
        /\ SyncDone(t) =>
              /\ calls[t] = Upto((response.value.total_activities \div PerPage) + 1)
              /\ sent[t] = calls[t]
              /\ pc[t] = "idle"

\* C1 witness: pages of 200, 200 and 0 activities, three requests.
C1_Witness ==
    /\ SyncDone(1)
    /\ response.value.total_activities = 2 * PerPage
    /\ sent[1] = <<1, 2, 3>>

\* C2: when a sync has failed on a page request, every page including the
\* failing one was called once (the request of the failing page was sent once,
\* or not at all when getting the token raised), the call raised instead of
\* returning anything, it never called save_activities_cache, and the cache
\* file is what it was when the sync started.
C2_FailedSyncWritesNothing ==
    \A t \in Tasks :
        SyncFailed(t) =>
            /\ DOMAIN response = {"tool", "task", "raised"}
            /\ calls[t] = Upto(Len(calls[t]))
            /\ Len(calls[t]) >= 1
            /\ sent[t] = IF response.raised = "ValueError"
                         THEN Upto(Len(calls[t]) - 1) ELSE calls[t]
            /\ saves[t] = 0
            /\ cacheFile = cacheAtStart[t]
            /\ pc[t] = "idle"

\* C2 witness: the request for page 2 is refused after page 1 was accumulated,
\* with a cache from an earlier sync on disk.
C2_Witness ==
    /\ SyncFailed(1)
    /\ response.raised = "HTTPStatusError"
    /\ sent[1] = <<1, 2>>
    /\ cacheFile.exists
    /\ Len(cacheFile.data.activities) > 0

\* C3: once save_activities_cache has been called, get_activities_cache returns
\* a record whose activities are exactly the list of the latest call and whose
\* count is its length; before any call it returns None.
C3_CacheIsLastSave ==
    LET cache == get_activities_cache(cacheFile)
    IN  /\ clock = 0 => cache = None
        /\ clock > 0 =>
              /\ cache # None
              /\ cache.activities = lastSaved
              /\ cache.count = Len(lastSaved)

\* C3 witness: a save of a shorter, non-empty list over a longer one.
C3_Witness ==
    /\ SyncDone(1)
    /\ cacheAtStart[1].exists
    /\ Len(lastSaved) >= 1
    /\ Len(cacheAtStart[1].data.activities) > Len(lastSaved)
    /\ cacheFile.data.activities = lastSaved

\* an activity passes every filter of p that is supplied (not None)
Satisfies(a, p) ==
    /\ "activity_type" \in DOMAIN p => ("type" \in DOMAIN a /\ a["type"] = p.activity_type)
    /\ "year" \in DOMAIN p =>
           LET date == IF "start_date_local" \in DOMAIN a THEN a.start_date_local ELSE <<>>
               y == Str(p.year)
           IN  Len(date) >= Len(y) /\ \A i \in 1..Len(y) : date[i] = y[i]
    /\ "min_distance_km" \in DOMAIN p =>
           (IF "distance" \in DOMAIN a THEN a.distance ELSE 0) >= p.min_distance_km * 1000
    /\ "max_distance_km" \in DOMAIN p =>
           (IF "distance" \in DOMAIN a THEN a.distance ELSE 0) <= p.max_distance_km * 1000

\* C4: query_cached_activities without a limit returns the cached activities
\* that pass every supplied filter, in cache order.
C4_QueryIsFilteredSubsequence ==
    (/\ response.tool = "query_cached_activities"
     /\ "limit" \notin DOMAIN response.arguments
     /\ cacheFile.exists) =>
        response.value = SelectSeq(cacheFile.data.activities,
                                   LAMBDA a : Satisfies(a, response.arguments))

\* C5: query_cached_activities with a limit >= 0 returns the first `limit`
\* elements of what it returns without the limit.
C5_LimitTruncates ==
    (/\ response.tool = "query_cached_activities"
     /\ "limit" \in DOMAIN response.arguments
     /\ response.arguments.limit >= 0) =>
        LET p == response.arguments
            filtered == query_cached_activities(
                            cacheFile, [k \in DOMAIN p \ {"limit"} |-> p[k]])
        IN  /\ Len(response.value) <= p.limit
            /\ response.value = [i \in 1..Min(p.limit, Len(filtered)) |-> filtered[i]]

\* C6: search_activities returns at most 25 activities, whatever the limit.
C6_SearchAtMostCap ==
    response.tool = "search_activities" =>
        /\ Len(response.value.activities) <= LimitCap
        /\ "results_count" \in DOMAIN response.value =>
               response.value.results_count <= LimitCap

\* C7: with no cache file, or with a cache of zero activities, search_activities
\* and get_yearly_stats return the "no cached activities" result and
\* query_cached_activities returns the empty list.
C7_NoCacheResult ==
    (~cacheFile.exists \/ Len(cacheFile.data.activities) = 0) =>
        /\ response.tool = "search_activities" =>
               response.value = [error |-> NoCacheError, activities |-> <<>>]
        /\ response.tool = "get_yearly_stats" =>
               response.value = [error |-> NoCacheError]
        /\ response.tool = "query_cached_activities" => Len(response.value) = 0

\* indices of the cached activities of type Run, and the year prefix of one
RunIndices(acts) ==
    {i \in 1..Len(acts) : "type" \in DOMAIN acts[i] /\ acts[i]["type"] = "Run"}
YearPrefix(a) ==
    LET date == IF "start_date_local" \in DOMAIN a THEN a.start_date_local ELSE <<>>
    IN  [i \in 1..Min(4, Len(date)) |-> date[i]]
RunsOfYear(acts, y) == {i \in RunIndices(acts) : YearPrefix(acts[i]) = y}

RECURSIVE SumOver(_, _, _)
SumOver(acts, I, f) ==
    IF I = {} THEN 0
    ELSE LET i == CHOOSE j \in I : TRUE
         IN  (IF f \in DOMAIN acts[i] THEN acts[i][f] ELSE 0) + SumOver(acts, I \ {i}, f)

\* C8: get_yearly_stats without a year emits one entry per year prefix of a
\* cached Run (none for an empty start date), in ascending order of the year
\* string, and each entry shows the number of the Runs of that year and their
\* summed distance, moving time and elevation.
C8_YearlyBuckets ==
    (/\ response.tool = "get_yearly_stats"
     /\ "year" \notin DOMAIN response.arguments
     /\ cacheFile.exists) =>
        LET acts == cacheFile.data.activities
            out == response.value.yearly_stats
            years == {YearPrefix(acts[i]) : i \in RunIndices(acts)} \ {<<>>}
        IN  /\ {out[k].year : k \in 1..Len(out)} = years
            /\ Len(out) = Cardinality(years)
            /\ \A k \in 1..(Len(out) - 1) : StrLt(out[k].year, out[k + 1].year)
            /\ \A k \in 1..Len(out) :
                  LET I == RunsOfYear(acts, out[k].year)
                  IN  /\ out[k].total_runs = Cardinality(I)
                      /\ out[k].total_distance = format_distance(SumOver(acts, I, "distance"))
                      /\ out[k].total_time = format_duration(SumOver(acts, I, "moving_time"))
                      /\ out[k].total_elevation =
                             Str(SumOver(acts, I, "total_elevation_gain")) \o <<109>>

\* C8 witness: two Runs cached newest first, two entries emitted oldest first.
C8_Witness ==
    /\ response.tool = "get_yearly_stats"
    /\ "year" \notin DOMAIN response.arguments
    /\ cacheFile.exists
    /\ Len(cacheFile.data.activities) = 2
    /\ YearPrefix(cacheFile.data.activities[1]) = Str(2024)
    /\ Len(response.value.yearly_stats) = 2
    /\ response.value.yearly_stats[1].year = Str(2023)

\* C9: get_yearly_stats(year=y) emits no entry for another year than y, none
\* at all when no cached Run starts in y, and never an entry of zero runs.
C9_OnlyRequestedYear ==
    (/\ response.tool = "get_yearly_stats"
     /\ "year" \in DOMAIN response.arguments
     /\ cacheFile.exists) =>
        LET y == Str(response.arguments.year)
            out == response.value.yearly_stats
        IN  /\ \A k \in 1..Len(out) : out[k].year = y /\ out[k].total_runs # 0
            /\ RunsOfYear(cacheFile.data.activities, y) = {} => Len(out) = 0

\* C10: every key of yearly_stats is a string of four digits.
C10_KeysAreYears ==
    (/\ response.tool = "get_yearly_stats"
     /\ "yearly_stats" \in DOMAIN response.value) =>
        \A k \in 1..Len(response.value.yearly_stats) :
            LET key == response.value.yearly_stats[k].year
            IN  Len(key) = 4 /\ \A i \in 1..Len(key) : key[i] \in 48..57

(***************************************************************************)
(* Properties of get_training_load (SpecLoad).                             *)
(***************************************************************************)
LoadSent == response.tool = "get_training_load" /\ response.requests # <<>>
LoadDone == response.tool = "get_training_load" /\ "value" \in DOMAIN response

\* the day count of the Monday of the week (Monday to Sunday) holding `day`
MondayOf(day) == CHOOSE m \in (day - 6)..day : (m + 3) % 7 = 0
\* the day count of a "YYYY-MM-DD..." string
DayOf(s) ==
    DaysFromCivil(ParseInt(SubSeq(s, 1, 4)), ParseInt(SubSeq(s, 6, 7)),
                  ParseInt(SubSeq(s, 9, 10)))
\* the fetched activities of type Run
FetchedRuns == SelectSeq(response.fetched, LAMBDA a : "type" \in DOMAIN a /\ a["type"] = "Run")
\* the weeks (day count of their Monday) in which a fetched Run starts
RunWeeks == {MondayOf(DayOf(FetchedRuns[i].start_date_local)) : i \in 1..Len(FetchedRuns)}

\* C11: the lower time bound sent to the remote is 00:00:00 of the Monday
\* lying min(weeks, 16) - 1 weeks before the Monday of the current week.
C11_BoundIsStartOfMonday ==
    LoadSent =>
        LET weeks == IF "weeks" \in DOMAIN response.arguments
                     THEN Min(response.arguments.weeks, 16) ELSE 8
            earliest == MondayOf(response.now.days) - 7 * (weeks - 1)
        IN  response.requests[1].after = earliest * 86400

\* C12: every entry of weekly_breakdown is keyed by the date of a Monday and
\* counts exactly the fetched Runs starting on that Monday or on one of the six
\* days after it, and every fetched Run is counted in the entry of its week.
C12_BucketIsMondayOfWeek ==
    LoadDone =>
        LET out == response.value.weekly_breakdown
            runs == FetchedRuns
            inWeek(i, k) == LET d == DayOf(runs[i].start_date_local)
                                m == DayOf(out[k].week_of)
                            IN  m <= d /\ d - m < 7
        IN  /\ \A k \in 1..Len(out) :
                  /\ (DayOf(out[k].week_of) + 3) % 7 = 0
                  /\ strftime_date([days |-> DayOf(out[k].week_of), secs |-> 0])
                         = out[k].week_of
                  /\ out[k].runs = Cardinality({i \in 1..Len(runs) : inWeek(i, k)})
            /\ \A i \in 1..Len(runs) : \E k \in 1..Len(out) : inWeek(i, k)

\* C12 witness: a Monday and the following Sunday in one entry, the next
\* Monday in another.
C12_Witness ==
    /\ LoadDone
    /\ \E k \in 1..Len(response.value.weekly_breakdown) :
          /\ response.value.weekly_breakdown[k].week_of = IsoDay(2024, 2, 26)
          /\ response.value.weekly_breakdown[k].runs = 2
    /\ \E k \in 1..Len(response.value.weekly_breakdown) :
          response.value.weekly_breakdown[k].week_of = IsoDay(2024, 3, 4)
    /\ \E i \in 1..Len(response.fetched) :
          Slice(response.fetched[i].start_date_local, 10) = IsoDay(2024, 3, 3)

\* C13: weekly_breakdown has an entry exactly for the weeks in which a fetched
\* Run starts, each with runs >= 1, and weeks_analyzed is the number of those
\* weeks.
C13_SparseWeeks ==
    LoadDone =>
        LET out == response.value.weekly_breakdown
        IN  /\ {DayOf(out[k].week_of) : k \in 1..Len(out)} = RunWeeks
            /\ Len(out) = Cardinality(RunWeeks)
            /\ \A k \in 1..Len(out) : out[k].runs >= 1
            /\ response.value.weeks_analyzed = Cardinality(RunWeeks)

\* C13 witness: 8 weeks requested, Runs in the weeks of 2024-02-12 and
\* 2024-02-26 only: two entries, none for the week of 2024-02-19.
C13_Witness ==
    /\ LoadDone
    /\ response.arguments = EmptyDict
    /\ response.value.weeks_analyzed = 2
    /\ response.value.weekly_breakdown[1].week_of = IsoDay(2024, 2, 12)
    /\ response.value.weekly_breakdown[2].week_of = IsoDay(2024, 2, 26)

RECURSIVE SeqSum(_)
SeqSum(q) == IF q = <<>> THEN 0 ELSE q[1] + SeqSum(Tail(q))

\* what C14 says besides the average: ascending weeks, total_runs, zero case
LoadTotalsOk ==
    LET out == response.value.weekly_breakdown
        v == response.value
    IN  /\ \A k \in 1..(Len(out) - 1) : StrLt(out[k].week_of, out[k + 1].week_of)
        /\ v.total_runs = Len(FetchedRuns)
        /\ v.total_runs = SeqSum([k \in 1..Len(out) |-> out[k].runs])
        /\ Len(FetchedRuns) = 0 =>
              /\ v.weeks_analyzed = 0 /\ v.total_runs = 0
              /\ v.average_weekly_distance_km = 0 /\ v.average_runs_per_week = 0

\* C14 (as stated): besides LoadTotalsOk, average_runs_per_week (held in
\* tenths) is exactly total_runs divided by the number of entries.
C14_AverageIsExactMean ==
    LoadDone =>
        /\ LoadTotalsOk
        /\ Len(response.value.weekly_breakdown) > 0 =>
              response.value.average_runs_per_week
                    * Len(response.value.weekly_breakdown)
                 = 10 * response.value.total_runs

\* C14 (amended): besides LoadTotalsOk, average_runs_per_week is total_runs
\* divided by the number of entries rounded to one decimal: it is a whole
\* number of tenths at most half a tenth away from the quotient.
C14_AverageIsRoundedMean ==
    LoadDone =>
        /\ LoadTotalsOk
        /\ LET n == Len(response.value.weekly_breakdown)
               diff == response.value.average_runs_per_week * n
                          - 10 * response.value.total_runs
           IN  n > 0 => (2 * diff <= n /\ -2 * diff <= n)

\* C14 witness: four Runs in three weeks, average 1.3.
C14_Witness ==
    /\ LoadDone
    /\ response.value.total_runs = 4
    /\ response.value.weeks_analyzed = 3
    /\ response.value.average_runs_per_week = 13

(***************************************************************************)
(* Properties of the formatters (SpecFormat).                              *)
(***************************************************************************)
\* C15: in the compact and in the full summary, pace is None exactly when the
\* activity's type is not "Run"; for a Run it is a string, "N/A" or a pace
\* ending in "/km".
C15_PaceNullIffNotRun ==
    response.tool = "format_activity_summary" =>
        LET a == response.arguments.activity
            isRun == "type" \in DOMAIN a /\ a["type"] = "Run"
            pace == response.value.pace
        IN  /\ (pace = None) <=> ~isRun
            /\ isRun =>
                  /\ DOMAIN pace = {"some"}
                  /\ \/ pace.some = <<78, 47, 65>>
                     \/ /\ Len(pace.some) >= 7
                        /\ SubSeq(pace.some, Len(pace.some) - 2, Len(pace.some))
                              = <<47, 107, 109>>

\* C15 witness: the full summary of a Ride that has a speed.
C15_Witness ==
    /\ response.tool = "format_activity_summary"
    /\ ~response.arguments.compact
    /\ "type" \in DOMAIN response.arguments.activity
    /\ response.arguments.activity["type"] = "Ride"
    /\ "average_speed" \in DOMAIN response.arguments.activity
    /\ response.arguments.activity.average_speed > 0
    /\ response.value.pace = None

\* the fields of a str separated by ":"
RECURSIVE Fields(_)
Fields(str) ==
    IF \A i \in 1..Len(str) : str[i] # 58 THEN <<str>>
    ELSE LET i == CHOOSE k \in 1..Len(str) :
                      str[k] = 58 /\ \A l \in 1..(k - 1) : str[l] # 58
         IN  <<SubSeq(str, 1, i - 1)>> \o Fields(SubSeq(str, i + 1, Len(str)))

RECURSIVE Number(_)
Number(digits) ==
    IF digits = <<>> THEN 0
    ELSE 10 * Number(SubSeq(digits, 1, Len(digits) - 1)) + (digits[Len(digits)] - 48)

IsNumber(str) == Len(str) >= 1 /\ \A i \in 1..Len(str) : str[i] \in 48..57

FailingStep ==
    /\ response = NoResponse
    /\ response' # NoResponse
    /\ "raised" \in DOMAIN response'

\* C16: whatever _handle_tool returned or raised, call_tool returns a list of
\* one text content, whose text begins with "Error: " when the handler raised;
\* and a step in which a handler raises leaves the cache, goals and races files
\* as they were and leaves no call suspended, so that the next call finds the
\* server as before.
C16_CallToolNeverRaises ==
    /\ [](response # NoResponse =>
            LET out == call_tool(response)
            IN  /\ DOMAIN out = {1}
                /\ out[1].type = "text"
                /\ "raised" \in DOMAIN response =>
                      /\ "text" \in DOMAIN out[1]
                      /\ Len(out[1].text) >= 7
                      /\ SubSeq(out[1].text, 1, 7) = "Error: ")
    /\ [][FailingStep =>
            /\ UNCHANGED <<cacheFile, goalsFile, racesFile>>
            /\ pending' = NoCall
            /\ "task" \in DOMAIN response' => pc'[response'.task] = "idle"]_vars

\* C16 witness: an unknown tool name while goals are stored.
C16_Witness ==
    /\ response.tool = "get_weather"
    /\ "raised" \in DOMAIN response
    /\ call_tool(response) = <<[type |-> "text", text |-> "Error: Unknown tool: get_weather"]>>
    /\ goalsFile.exists
    /\ Len(goalsFile.data) > 0

\* a step that ends a delete_goal, delete_race, set_goal or update_race call
\* whose goal_id / race_id is given (non-empty unless allowEmpty) and is the id
\* of no stored goal / race
LookupMiss(allowEmpty) ==
    /\ response = NoResponse
    /\ response' # NoResponse
    /\ response'.tool \in {"delete_goal", "set_goal", "delete_race", "update_race"}
    /\ LET goal == response'.tool \in {"delete_goal", "set_goal"}
           key == IF goal THEN "goal_id" ELSE "race_id"
           stored == IF goal THEN (IF goalsFile.exists THEN goalsFile.data ELSE <<>>)
                     ELSE (IF racesFile.exists THEN racesFile.data ELSE <<>>)
       IN  /\ key \in DOMAIN response'.arguments
           /\ allowEmpty \/ response'.arguments[key] # ""
           /\ \A i \in 1..Len(stored) : stored[i].id # response'.arguments[key]

\* the call returned success = false and wrote nothing
NotFoundNoWrite ==
    /\ "value" \in DOMAIN response'
    /\ response'.value.success = FALSE
    /\ UNCHANGED <<goalsFile, racesFile>>

TokenStep ==
    /\ response = NoResponse
    /\ response' # NoResponse
    /\ response'.tool = "_get_access_token"
    /\ tokensFile.exists
    /\ Truthy(tokensFile.data, "client_id")
    /\ Truthy(tokensFile.data, "client_secret")

\* C18: get_valid_token posts to the token endpoint (once) exactly when the
\* current time is greater than expires_at - 60; when it does not, it returns
\* the stored access token and does not write tokens.json; when it does and
\* the endpoint answers, tokens.json becomes the answer, with the stored
\* athlete added if the answer has none, and the answer's access token is
\* returned.
C18_RefreshIffExpired ==
    [][TokenStep =>
        LET tokens == tokensFile.data
            r == response'
            due == r.now > tokens.expires_at - 60
        IN  /\ due <=> Len(r.posts) = 1
            /\ ~due <=> r.posts = <<>>
            /\ ~due => /\ r.value = tokens.access_token
                       /\ r.writes = 0
                       /\ tokensFile' = tokensFile
            /\ due /\ "json" \in DOMAIN r.reply =>
                   LET answer == r.reply.json
                       carried == IF "athlete" \in DOMAIN answer THEN {}
                                  ELSE DOMAIN tokens \cap {"athlete"}
                   IN  /\ r.posts[1].refresh_token = tokens.refresh_token
                       /\ r.writes = 1
                       /\ tokensFile'.exists
                       /\ DOMAIN tokensFile'.data = DOMAIN answer \cup carried
                       /\ \A k \in DOMAIN answer : tokensFile'.data[k] = answer[k]
                       /\ \A k \in carried : tokensFile'.data[k] = tokens[k]
                       /\ r.value = answer.access_token]_vars

\* C18 witness: a refresh whose answer has no athlete has been saved with the
\* stored athlete, and the new access token returned.
C18_Witness ==
    /\ response.tool = "_get_access_token"
    /\ Len(response.posts) = 1
    /\ "json" \in DOMAIN response.reply
    /\ "athlete" \notin DOMAIN response.reply.json
    /\ response.value = "at2"
    /\ tokensFile.exists
    /\ "athlete" \in DOMAIN tokensFile.data
    /\ tokensFile.data.athlete = [id |-> 7]
    /\ tokensFile.data.access_token = "at2"

(***************************************************************************)
(* Order of the page requests of one get_all_activities call (Spec).       *)
(***************************************************************************)
RECURSIVE Flatten(_)
Flatten(pages) ==
    IF pages = <<>> THEN <<>>
    ELSE Flatten(SubSeq(pages, 1, Len(pages) - 1)) \o pages[Len(pages)]

\* requests of task t sent and not yet answered
InFlight(t) == Len(sent[t]) - Len(received[t])

\* C20: the page requests of one get_all_activities call are pages 1, 2, 3,
\* ... in that order; at most one is unanswered at any time, exactly one while
\* the call waits; every page answered before the last request had exactly 200
\* items; the accumulator is the received pages in request order, and so is the
\* list the call returned (which the sync saved).  A step that sends page n+1
\* is the step that received the 200 items of page n.
C20_SequentialPages ==
    /\ [](\A t \in Tasks :
            /\ sent[t] = Upto(Len(sent[t]))
            /\ InFlight(t) \in {0, 1}
            /\ pc[t] = "await" =>
                  /\ InFlight(t) = 1
                  /\ all_activities[t] = Flatten(received[t])
            /\ \A n \in 1..(Len(sent[t]) - 1) : Len(received[t][n]) = 200
            /\ SyncDone(t) =>
                  /\ InFlight(t) = 0
                  /\ lastSaved = Flatten(received[t])
                  /\ response.value.total_activities = Len(Flatten(received[t])))
    /\ [][\A t \in Tasks :
            (sent[t] # <<>> /\ sent'[t] # sent[t] /\ sent'[t] # <<>>) =>
                LET n == Len(sent[t])
                IN  /\ sent'[t] = Append(sent[t], n + 1)
                    /\ Len(received[t]) = n - 1
                    /\ Len(received'[t]) = n
                    /\ Len(received'[t][n]) = 200]_vars

\* C20 witness: two full pages and a short one were received, in that order,
\* and the sync returned their concatenation.
C20_Witness ==
    /\ SyncDone(1)
    /\ sent[1] = <<1, 2, 3>>
    /\ Len(received[1]) = 3
    /\ Len(received[1][1]) = 200
    /\ Len(received[1][3]) = 1
    /\ lastSaved = received[1][1] \o received[1][2] \o received[1][3]
    /\ lastSaved[401].id # lastSaved[1].id

\* C22: a successful refresh whose answer carries only access_token,
\* refresh_token and expires_at leaves client_id and client_secret in
\* tokens.json, so that no later _get_access_token raises "Client credentials
\* not found in tokens. Re-run authentication." while the auth flow's tokens
\* are stored.
C22_CredentialsSurviveRefresh ==
    /\ [][(/\ TokenStep
           /\ "json" \in DOMAIN response'.reply
           /\ DOMAIN response'.reply.json = {"access_token", "refresh_token", "expires_at"}
           /\ "value" \in DOMAIN response')
          => /\ tokensFile'.exists
             /\ Truthy(tokensFile'.data, "client_id")
             /\ Truthy(tokensFile'.data, "client_secret")]_vars
    /\ [](/\ response.tool = "_get_access_token"
          /\ "message" \in DOMAIN response
          => response.message # "Client credentials not found in tokens. Re-run authentication.")

(***************************************************************************)
(* The single request of get_training_load (SpecLoad).                     *)
(***************************************************************************)
\* C23: get_training_load sends one request, for page 1 with per_page 200 and
\* `after` the boundary it computed (the Monday min(weeks, 16) - 1 weeks before
\* this week's, at the time of day of the call), and sends no other; its
\* breakdown and totals count every Run of that one response, whether or not
\* it starts at or after the boundary in local time, and nothing else, so
\* total_runs is at most 200.
C23_OneRequestOnePage ==
    /\ LoadSent =>
          LET weeks == IF "weeks" \in DOMAIN response.arguments
                       THEN Min(response.arguments.weeks, 16) ELSE 8
              boundary == (MondayOf(response.now.days) - 7 * (weeks - 1)) * 86400
                          + response.now.secs
          IN  response.requests = <<[per_page |-> 200, page |-> 1, after |-> boundary]>>
    /\ pending # NoCall => Len(pending.requests) = 1
    /\ LoadDone =>
          LET out == response.value.weekly_breakdown
          IN  /\ Len(response.fetched) <= 200
              /\ response.value.total_runs = Len(FetchedRuns)
              /\ response.value.total_runs <= 200
              /\ SeqSum([k \in 1..Len(out) |-> out[k].runs]) = Len(FetchedRuns)
              /\ \A i \in 1..Len(FetchedRuns) :
                    \E k \in 1..Len(out) :
                        DayOf(out[k].week_of) = MondayOf(DayOf(FetchedRuns[i].start_date_local))

\* C23 witness: the athlete holds 250 runs after the boundary; the 200 of the
\* first page are counted.
C23_Witness ==
    /\ LoadDone
    /\ Len(response.requests) = 1
    /\ Len(SelectSeq(Streak, LAMBDA a : StartOf(a) >= response.requests[1].after)) > 200
    /\ Len(response.fetched) = 200
    /\ response.fetched[1].id = 2001
    /\ response.value.total_runs = 200

(***************************************************************************)
(* Termination of get_all_activities (SpecLive).  The remote of the model  *)
(* holds fewer than MaxPages * 200 activities, so that some page it serves *)
(* is short.                                                               *)
(***************************************************************************)
\* a step in which task t receives a page of n activities
Receives(t, n) ==
    /\ Len(received'[t]) = Len(received[t]) + 1
    /\ Len(received'[t][Len(received'[t])]) = n

\* C21: against a remote that answers every request, a sync that waits for a
\* page eventually ends (it returns, or raises if a request fails); it ends by
\* returning only in the step that receives a page of fewer than 200 items,
\* and whatever the number of pages already fetched, a page of exactly 200
\* items makes it ask for the next page instead of returning.
C21_ReturnsOnShortPageOnly ==
    /\ \A t \in {1} : (pc[t] = "await") ~> (pc[t] = "idle" /\ (SyncDone(t) \/ SyncFailed(t)))
    /\ [][\A t \in Tasks :
            /\ (~SyncDone(t) /\ SyncDone(t)') =>
                  \E n \in 0..199 : Receives(t, n)
            /\ Receives(t, 200) =>
                  /\ ~SyncDone(t)'
                  /\ calls'[t] = Append(calls[t], page[t] + 1)
                  /\ page'[t] = page[t] + 1
                  /\ pc'[t] = "await" \/ (response' # NoResponse /\ "raised" \in DOMAIN response')]_vars

\* C21 witness: two full pages, then an empty one: the sync has returned 400
\* activities.
C21_Witness ==
    /\ SyncDone(1)
    /\ Len(received[1]) = 3
    /\ Len(received[1][2]) = 200
    /\ received[1][3] = <<>>
    /\ response.value.total_activities = 400

(***************************************************************************)
(* Interleaved calls in one event loop (SpecConcurrent).                   *)
(***************************************************************************)
\* a step in which a search_activities call runs
SearchStep ==
    /\ response = NoResponse
    /\ response' # NoResponse
    /\ response'.tool = "search_activities"

\* a step in which the sync of task t saves the cache and returns
SaveStep(t) ==
    /\ response = NoResponse
    /\ SyncDone(t)'

\* C24: a search_activities call is one step of the event loop, in which no
\* sync writes the cache: with a cache file, cache_updated and total_cached are
\* the updated_at and count of the cache file of that moment, the activities
\* returned are summaries of activities of that same file, and the file and
\* the state of every sync in flight are the same after the step.
C24_SearchSeesOneCacheVersion ==
    [][SearchStep =>
        /\ UNCHANGED <<cacheFile, clock, pc, all_activities, received, saves>>
        /\ cacheFile.exists /\ cacheFile.data.activities # <<>> =>
              LET cache == cacheFile.data
                  found == response'.value.activities
              IN  /\ response'.value.cache_updated = cache.updated_at
                  /\ response'.value.total_cached = cache.count
                  /\ response'.value.results_count = Len(found)
                  /\ Len(found) <= Len(cache.activities)
                  /\ \A i \in 1..Len(found) :
                        found[i].id = Some(cache.activities[i].id)]_vars

\* C24 witness: a search ran while a sync that had already received a page
\* was waiting for the next one, and reported the cache of the sync before.
C24_Witness ==
    /\ response.tool = "search_activities"
    /\ \E t \in Tasks : pc[t] = "await" /\ Len(received[t]) = 1
    /\ cacheFile.exists
    /\ "total_cached" \in DOMAIN response.value
    /\ response.value.total_cached = 1
    /\ response.value.cache_updated = cacheFile.data.updated_at
    /\ response.value.results_count = 1

\* C25: the step in which a sync saves writes the cache with exactly the
\* pages that sync received, in the order it received them, and with their
\* number of activities as count, whatever pages another sync received in
\* between; so the cache is at all times the complete list of the sync that
\* saved last.
C25_CacheIsOneSyncsList ==
    /\ [][\A t \in Tasks :
            SaveStep(t) =>
                /\ cacheFile'.exists
                /\ cacheFile'.data.activities = Flatten(received'[t])
                /\ cacheFile'.data.count = Len(Flatten(received'[t]))
                /\ lastSaved' = Flatten(received'[t])
                /\ \A u \in Tasks \ {t} :
                      /\ all_activities'[u] = all_activities[u]
                      /\ received'[u] = received[u]]_vars
    /\ [](cacheFile.exists =>
            /\ cacheFile.data.activities = lastSaved
            /\ cacheFile.data.count = Len(lastSaved))

\* C25 witness: sync 1 received a full page of version 1, sync 2 then received
\* a short page of version 2 and saved, sync 1 then received its short second
\* page and saved: both are done and the cache holds the 201 activities of
\* sync 1.
C25_Witness ==
    /\ SyncDone(1)
    /\ pc[2] = "idle"
    /\ clock = 2
    /\ Len(received[1]) = 2
    /\ received[1][1][1].id = 1001
    /\ cacheFile.data.count = 201
    /\ cacheFile.data.activities = received[1][1] \o received[1][2]
    /\ cacheFile.data.activities[1].id = 1001

====
